---- MODULE Spec2Model ----
(***************************************************************************)
(* Three self-balancing binary search trees (src/A2): AVLTree, RBTree and  *)
(* Treap, each offering insert / search / delete over integer keys.        *)
(*                                                                         *)
(* AVL and Treap nodes are owned by exactly one parent link and carry no   *)
(* back-reference, so a subtree is written as a nested record              *)
(* [id, key, height|priority, left, right]; `id` is the identity of the    *)
(* Python object.  An in-place assignment `node.f = v` is the record       *)
(* [node EXCEPT !.f = v] put back where the node hangs.  The Red-Black     *)
(* tree has parent back-references and a shared sentinel, so it is written *)
(* as a heap: one function per field, indexed by object identity.          *)
(***************************************************************************)
EXTENDS Integers, Sequences, FiniteSets, TLC

VARIABLES engine, avl, rb, treap, raised, count, removed, bloom, cuckoo, xxh32, inserted,
          run

vars == <<engine, avl, rb, treap, raised, count, removed, bloom, cuckoo, xxh32, inserted,
          run>>

(***************************************************************************)
(* Bounds of the model.                                                    *)
(***************************************************************************)
MaxKey == 3
MaxPrio == 2
MaxAVLNodes == 5
MaxRBNodes == 6
MaxTreapNodes == 3
MaxItems == 2
MaxDigest == 4
MaxBucketSize == 2

Keys == 1..MaxKey
Prios == 1..MaxPrio
Engines == {"avl", "rb", "treap"}

Max(a, b) == IF a > b THEN a ELSE b

\* Python's None as the value of a child link of an AVL or Treap node.
None == <<>>

\* The identity given to a newly constructed object: any identity no live
\* object has; the least one is taken.
FreshId(used) ==
    CHOOSE i \in 1..(Cardinality(used) + 1) : i \notin used /\ \A j \in 1..(i-1) : j \in used

(***************************************************************************)
(* AVL_Tree.py                                                             *)
(***************************************************************************)
AVLNode(key, id) == [id |-> id, key |-> key, left |-> None, right |-> None, height |-> 1]

get_height(node) == IF node = None THEN 0 ELSE node.height

get_balance(node) ==
    IF node = None THEN 0 ELSE get_height(node.left) - get_height(node.right)

\* A call that returns normally yields the returned node; a call in which
\* `None.right` / `None.left` is read raises AttributeError before any
\* field is written, and leaves the argument as it was.
Returned(node) == [node |-> node, raised |-> FALSE]
Raise(node) == [node |-> node, raised |-> TRUE]

\* right_rotate with lines 44 and 45 exchanged: y's height is computed while
\* z still carries the height it had before the rotation.  C20 fails with it.
right_rotate_heights_misordered(z) ==
    LET y == z.left IN
    IF y = None THEN Raise(z)
    ELSE LET T3 == y.right
             z1 == [z EXCEPT !.left = T3]
             y1 == [y EXCEPT !.right = z1]
             y2 == [y1 EXCEPT !.height = 1 + Max(get_height(y1.left), get_height(y1.right))]
             z2 == [z1 EXCEPT !.height = 1 + Max(get_height(z1.left), get_height(z1.right))]
         IN Returned([y2 EXCEPT !.right = z2])

right_rotate(z) ==
    LET y == z.left IN
    IF y = None THEN Raise(z)
    ELSE LET T3 == y.right
             z1 == [z EXCEPT !.left = T3]
             z2 == [z1 EXCEPT !.height = 1 + Max(get_height(z1.left), get_height(z1.right))]
             y1 == [y EXCEPT !.right = z2]
             y2 == [y1 EXCEPT !.height = 1 + Max(get_height(y1.left), get_height(y1.right))]
         IN Returned(y2)

\* left_rotate with line 55 reading `z.right = y.right`: the subtree T2 is
\* dropped.  C1 fails with it.
left_rotate_drops_T2(z) ==
    LET y == z.right IN
    IF y = None THEN Raise(z)
    ELSE LET z1 == [z EXCEPT !.right = y.right]
             z2 == [z1 EXCEPT !.height = 1 + Max(get_height(z1.left), get_height(z1.right))]
             y1 == [y EXCEPT !.left = z2]
             y2 == [y1 EXCEPT !.height = 1 + Max(get_height(y1.left), get_height(y1.right))]
         IN Returned(y2)

left_rotate(z) ==
    LET y == z.right IN
    IF y = None THEN Raise(z)
    ELSE LET T2 == y.left
             z1 == [z EXCEPT !.right = T2]
             z2 == [z1 EXCEPT !.height = 1 + Max(get_height(z1.left), get_height(z1.right))]
             y1 == [y EXCEPT !.left = z2]
             y2 == [y1 EXCEPT !.height = 1 + Max(get_height(y1.left), get_height(y1.right))]
         IN Returned(y2)

\* Lines 88-114 of _insert: the ancestor `node` after its child link has
\* been assigned; height update, then the four rotation cases.
\* _insert without the Left Left case (lines 97-98).  C29 fails with it.
AVL_insert_rebalance_without_LL(node, key) ==
    LET n == [node EXCEPT !.height = 1 + Max(get_height(node.left), get_height(node.right))]
        balance == get_balance(n)
    IN IF balance < -1 /\ key > n.right.key THEN left_rotate(n)
       ELSE IF balance > 1 /\ key > n.left.key THEN
            LET l == left_rotate(n.left) IN
            IF l.raised THEN Raise(n)
            ELSE right_rotate([n EXCEPT !.left = l.node])
       ELSE IF balance < -1 /\ key < n.right.key THEN
            LET r == right_rotate(n.right) IN
            IF r.raised THEN Raise(n)
            ELSE left_rotate([n EXCEPT !.right = r.node])
       ELSE Returned(n)

AVL_insert_rebalance(node, key) ==
    LET n == [node EXCEPT !.height = 1 + Max(get_height(node.left), get_height(node.right))]
        balance == get_balance(n)
    IN IF balance > 1 /\ key < n.left.key THEN right_rotate(n)
       ELSE IF balance < -1 /\ key > n.right.key THEN left_rotate(n)
       ELSE IF balance > 1 /\ key > n.left.key THEN
            LET l == left_rotate(n.left) IN
            IF l.raised THEN Raise(n)
            ELSE right_rotate([n EXCEPT !.left = l.node])
       ELSE IF balance < -1 /\ key < n.right.key THEN
            LET r == right_rotate(n.right) IN
            IF r.raised THEN Raise(n)
            ELSE left_rotate([n EXCEPT !.right = r.node])
       ELSE Returned(n)

\* When the recursive call raises, the assignment `node.left = ...` of this
\* frame is skipped; the child is still the same object, with the fields
\* the deeper frames wrote, and the exception goes on to the caller.
RECURSIVE AVL_insert(_, _, _)
AVL_insert(node, key, id) ==
    IF node = None THEN Returned(AVLNode(key, id))
    ELSE IF key < node.key THEN
        LET sub == AVL_insert(node.left, key, id)
            n == [node EXCEPT !.left = sub.node]
        IN IF sub.raised THEN Raise(n) ELSE AVL_insert_rebalance(n, key)
    ELSE
        LET sub == AVL_insert(node.right, key, id)
            n == [node EXCEPT !.right = sub.node]
        IN IF sub.raised THEN Raise(n) ELSE AVL_insert_rebalance(n, key)

RECURSIVE AVL_search(_, _)
AVL_search(node, key) ==
    IF node = None THEN FALSE
    ELSE IF node.key = key THEN TRUE
    ELSE IF key < node.key THEN AVL_search(node.left, key)
    ELSE AVL_search(node.right, key)

\* _min_value_node without its loop: the successor taken is the right
\* child, not the leftmost node below it.  C7 fails with it.
AVL_min_value_node_no_descent(node) == node

RECURSIVE AVL_min_value_node(_)
AVL_min_value_node(node) ==
    IF node.left # None THEN AVL_min_value_node(node.left) ELSE node

\* Lines 169-193 of _delete: height update, then the rotation cases chosen
\* by the balance of the child.
AVL_delete_rebalance(node) ==
    LET n == [node EXCEPT !.height = 1 + Max(get_height(node.left), get_height(node.right))]
        balance == get_balance(n)
    IN IF balance > 1 /\ get_balance(n.left) >= 0 THEN right_rotate(n)
       ELSE IF balance > 1 /\ get_balance(n.left) < 0 THEN
            LET l == left_rotate(n.left) IN
            IF l.raised THEN Raise(n)
            ELSE right_rotate([n EXCEPT !.left = l.node])
       ELSE IF balance < -1 /\ get_balance(n.right) <= 0 THEN left_rotate(n)
       ELSE IF balance < -1 /\ get_balance(n.right) > 0 THEN
            LET r == right_rotate(n.right) IN
            IF r.raised THEN Raise(n)
            ELSE left_rotate([n EXCEPT !.right = r.node])
       ELSE Returned(n)

RECURSIVE AVL_delete(_, _)
\* _delete without line 160 (`node.key = temp.key`): the successor is
\* removed and the key to delete stays.  The amended C22 fails with it.
AVL_delete_without_key_copy(node, key) ==
    IF node = None THEN Returned(node)
    ELSE IF key < node.key THEN
        LET sub == AVL_delete(node.left, key)
            n == [node EXCEPT !.left = sub.node]
        IN IF sub.raised THEN Raise(n) ELSE AVL_delete_rebalance(n)
    ELSE IF key > node.key THEN
        LET sub == AVL_delete(node.right, key)
            n == [node EXCEPT !.right = sub.node]
        IN IF sub.raised THEN Raise(n) ELSE AVL_delete_rebalance(n)
    ELSE IF node.left = None THEN Returned(node.right)
    ELSE IF node.right = None THEN Returned(node.left)
    ELSE
        LET temp == AVL_min_value_node(node.right)
            sub == AVL_delete(node.right, temp.key)
            n == [node EXCEPT !.right = sub.node]
        IN IF sub.raised THEN Raise(n) ELSE AVL_delete_rebalance(n)

AVL_delete(node, key) ==
    IF node = None THEN Returned(node)
    ELSE IF key < node.key THEN
        LET sub == AVL_delete(node.left, key)
            n == [node EXCEPT !.left = sub.node]
        IN IF sub.raised THEN Raise(n) ELSE AVL_delete_rebalance(n)
    ELSE IF key > node.key THEN
        LET sub == AVL_delete(node.right, key)
            n == [node EXCEPT !.right = sub.node]
        IN IF sub.raised THEN Raise(n) ELSE AVL_delete_rebalance(n)
    ELSE IF node.left = None THEN Returned(node.right)
    ELSE IF node.right = None THEN Returned(node.left)
    ELSE
        LET temp == AVL_min_value_node(node.right)
            n1 == [node EXCEPT !.key = temp.key]
            sub == AVL_delete(n1.right, temp.key)
            n == [n1 EXCEPT !.right = sub.node]
        IN IF sub.raised THEN Raise(n) ELSE AVL_delete_rebalance(n)

\* The objects of an AVL / Treap subtree, and its keys in order.
RECURSIVE NodeIds(_)
NodeIds(node) ==
    IF node = None THEN {} ELSE {node.id} \cup NodeIds(node.left) \cup NodeIds(node.right)

RECURSIVE InOrder(_)
InOrder(node) ==
    IF node = None THEN <<>> ELSE InOrder(node.left) \o <<node.key>> \o InOrder(node.right)

RECURSIVE Size(_)
Size(node) == IF node = None THEN 0 ELSE Size(node.left) + 1 + Size(node.right)

\* The subtree with its objects named base+1, base+2, ... in order.
RECURSIVE Renamed(_, _)
Renamed(node, base) ==
    IF node = None THEN None
    ELSE [node EXCEPT !.id = base + Size(node.left) + 1,
                      !.left = Renamed(node.left, base),
                      !.right = Renamed(node.right, base + Size(node.left) + 1)]

AVL_Tree_objects(self) == [self EXCEPT !.root = Renamed(self.root, 0)]

Treap_objects(self) == [self EXCEPT !.root = Renamed(self.root, 0)]

\* AVLTree.insert / search / delete: the tree object after the call, what
\* the call returned, and whether it raised.  `self.root = ...` is skipped
\* when the recursive call raises; the root is then the same object as
\* before, as the frames left it.
\* insert that returns at once when the key is already found, storing a
\* key once however often it is inserted.  C5 fails with it.
AVLTree_insert_once(self, key) ==
    IF AVL_search(self.root, key) THEN [self |-> self, ret |-> "None", raised |-> FALSE]
    ELSE LET r == AVL_insert(self.root, key, FreshId(NodeIds(self.root)))
         IN [self |-> [self EXCEPT !.root = r.node], ret |-> "None", raised |-> r.raised]

\* search that walks with self.root as its cursor for the first step.  C6
\* fails with it.
AVLTree_search_moves_root(self, key) ==
    [self |-> IF self.root # None /\ self.root.key # key
              THEN [self EXCEPT !.root = IF key < self.root.key THEN self.root.left
                                         ELSE self.root.right]
              ELSE self,
     ret |-> IF AVL_search(self.root, key) THEN "True" ELSE "False",
     raised |-> FALSE]

AVLTree_insert(self, key) ==
    LET r == AVL_insert(self.root, key, FreshId(NodeIds(self.root)))
    IN [self |-> [self EXCEPT !.root = r.node], ret |-> "None", raised |-> r.raised]

AVLTree_search(self, key) ==
    [self |-> self,
     ret |-> IF AVL_search(self.root, key) THEN "True" ELSE "False",
     raised |-> FALSE]

AVLTree_delete(self, key) ==
    LET r == AVL_delete(self.root, key)
    IN [self |-> [self EXCEPT !.root = r.node], ret |-> "None", raised |-> r.raised]

(***************************************************************************)
(* Treap.py                                                                *)
(***************************************************************************)
\* TreapNode.__init__: `priority` is the value random.random() returned.
TreapNode(key, priority, id) ==
    [id |-> id, key |-> key, priority |-> priority, left |-> None, right |-> None]

\* Both rotations are only called on a node whose child on the rotated
\* side was tested or assigned non-None in the calling frame.
\* _left_rotate that also hands the priority of x to y and that of y to
\* x.  C26 fails with it.
Treap_left_rotate_swaps_priorities(x) ==
    LET y == x.right
        x1 == [x EXCEPT !.right = y.left, !.priority = y.priority]
    IN [y EXCEPT !.left = x1, !.priority = x.priority]

Treap_left_rotate(x) ==
    LET y == x.right
        x1 == [x EXCEPT !.right = y.left]
    IN [y EXCEPT !.left = x1]

\* _right_rotate with line 158 reading `x.left = y.left`: the left
\* subtree of y hangs below x as well, to the right of y.  The amended C8
\* fails with it.
Treap_right_rotate_wrong_subtree(x) ==
    LET y == x.left
        x1 == [x EXCEPT !.left = y.left]
    IN [y EXCEPT !.right = x1]

Treap_right_rotate(x) ==
    LET y == x.left
        x1 == [x EXCEPT !.left = y.right]
    IN [y EXCEPT !.right = x1]

RECURSIVE Treap_search(_, _)
\* _search with lines 62 and 64 exchanged: the walk turns the wrong way.
\* C17 fails with it.
Treap_search_wrong_side(node, key) ==
    IF node = None THEN FALSE
    ELSE IF node.key = key THEN TRUE
    ELSE IF key < node.key THEN Treap_search(node.right, key)
    ELSE Treap_search(node.left, key)

Treap_search(node, key) ==
    IF node = None THEN FALSE
    ELSE IF node.key = key THEN TRUE
    ELSE IF key < node.key THEN Treap_search(node.left, key)
    ELSE Treap_search(node.right, key)

RECURSIVE Treap_insert(_, _, _, _)
\* _insert without the test of lines 92-93: no left rotation after an
\* insertion to the right.  C13 fails with it.
Treap_insert_no_left_rotation(node, key, priority, id) ==
    IF node = None THEN TreapNode(key, priority, id)
    ELSE IF key < node.key THEN
        LET n == [node EXCEPT !.left = Treap_insert(node.left, key, priority, id)]
        IN IF n.left.priority > n.priority THEN Treap_right_rotate(n) ELSE n
    ELSE [node EXCEPT !.right = Treap_insert(node.right, key, priority, id)]

Treap_insert(node, key, priority, id) ==
    IF node = None THEN TreapNode(key, priority, id)
    ELSE IF key < node.key THEN
        LET n == [node EXCEPT !.left = Treap_insert(node.left, key, priority, id)]
        IN IF n.left.priority > n.priority THEN Treap_right_rotate(n) ELSE n
    ELSE
        LET n == [node EXCEPT !.right = Treap_insert(node.right, key, priority, id)]
        IN IF n.right.priority > n.priority THEN Treap_left_rotate(n) ELSE n

RECURSIVE Treap_delete(_, _)
\* _delete with line 117 reading `elif key >= node.key`: the branch that
\* removes a node is never taken.  C15 fails with it.
Treap_delete_passes_equal(node, key) ==
    IF node = None THEN None
    ELSE IF key < node.key THEN [node EXCEPT !.left = Treap_delete(node.left, key)]
    ELSE [node EXCEPT !.right = Treap_delete(node.right, key)]

\* _delete with line 127 reading `<`: the child with the lower priority is
\* rotated up over its sibling.  C31 fails with it.
Treap_delete_rotates_lower_up(node, key) ==
    IF node = None THEN None
    ELSE IF key < node.key THEN [node EXCEPT !.left = Treap_delete(node.left, key)]
    ELSE IF key > node.key THEN [node EXCEPT !.right = Treap_delete(node.right, key)]
    ELSE IF node.left = None THEN node.right
    ELSE IF node.right = None THEN node.left
    ELSE IF node.left.priority < node.right.priority THEN
        LET n == Treap_right_rotate(node)
        IN [n EXCEPT !.right = Treap_delete(n.right, key)]
    ELSE
        LET n == Treap_left_rotate(node)
        IN [n EXCEPT !.left = Treap_delete(n.left, key)]

Treap_delete(node, key) ==
    IF node = None THEN None
    ELSE IF key < node.key THEN [node EXCEPT !.left = Treap_delete(node.left, key)]
    ELSE IF key > node.key THEN [node EXCEPT !.right = Treap_delete(node.right, key)]
    ELSE IF node.left = None THEN node.right
    ELSE IF node.right = None THEN node.left
    ELSE IF node.left.priority > node.right.priority THEN
        LET n == Treap_right_rotate(node)
        IN [n EXCEPT !.right = Treap_delete(n.right, key)]
    ELSE
        LET n == Treap_left_rotate(node)
        IN [n EXCEPT !.left = Treap_delete(n.left, key)]

\* Treap.insert / search / delete; `priority` is the draw of random.random()
\* made by the one TreapNode the call constructs.
Treap_insert_call(self, key, priority) ==
    [self |-> [self EXCEPT !.root =
                  Treap_insert(self.root, key, priority, FreshId(NodeIds(self.root)))],
     ret |-> "None", raised |-> FALSE]

Treap_search_call(self, key) ==
    [self |-> self,
     ret |-> IF Treap_search(self.root, key) THEN "True" ELSE "False",
     raised |-> FALSE]

\* delete that removes two entries with the key where there are two.  The
\* amended C2 fails with it.
Treap_delete_call_twice(self, key) ==
    [self |-> [self EXCEPT !.root = Treap_delete(Treap_delete(self.root, key), key)],
     ret |-> "None", raised |-> FALSE]

Treap_delete_call(self, key) ==
    [self |-> [self EXCEPT !.root = Treap_delete(self.root, key)],
     ret |-> "None", raised |-> FALSE]

(***************************************************************************)
(* Red_Black_Tree.py                                                       *)
(*                                                                         *)
(* An RBTree is [root, key, color, left, right, parent]: `root` is an      *)
(* object identity and the other fields map each object to the value of    *)
(* its attribute.  Object NIL is the sentinel self.NIL; NoRef is Python's  *)
(* None as the value of an attribute of an RBNode.                         *)
(***************************************************************************)
RED == TRUE
BLACK == FALSE
NIL == 0
NoRef == -1
RBObjs == {NIL} \cup (1..MaxRBNodes)

\* RBNode.__init__ on object `id` of heap t.
RBNode(t, id, key, color, left, right, parent) ==
    [t EXCEPT !.key[id] = key, !.color[id] = color, !.left[id] = left,
              !.right[id] = right, !.parent[id] = parent]

\* RBTree.__init__: the sentinel is built with key=None, color=BLACK and
\* the defaults left=None, right=None, parent=None.  An identity no object
\* has yet reads like a blank object.
RBTree_init ==
    [root |-> NIL,
     key |-> [n \in RBObjs |-> NoRef],
     color |-> [n \in RBObjs |-> BLACK],
     left |-> [n \in RBObjs |-> NoRef],
     right |-> [n \in RBObjs |-> NoRef],
     parent |-> [n \in RBObjs |-> NoRef]]

\* A rotation keeps its local `y` while it rewrites x.right (x.left), so
\* y is handed on as a parameter.  Lines 131-134 / 150-153, then lines
\* 135-142 / 154-161.
\* _left_rotate without line 134 (`y.parent = x.parent`): y keeps x as its
\* parent.  C23 fails with it.
RB_left_rotate_down_keeps_parent(t, x, y) ==
    LET t1 == [t EXCEPT !.right[x] = t.left[y]]
    IN IF t1.left[y] # NIL THEN [t1 EXCEPT !.parent[t1.left[y]] = x] ELSE t1

RB_left_rotate_down(t, x, y) ==
    LET t1 == [t EXCEPT !.right[x] = t.left[y]]
        t2 == IF t1.left[y] # NIL THEN [t1 EXCEPT !.parent[t1.left[y]] = x] ELSE t1
    IN [t2 EXCEPT !.parent[y] = t2.parent[x]]

RB_left_rotate_up(t, x, y) ==
    LET t1 == IF t.parent[x] = NoRef THEN [t EXCEPT !.root = y]
              ELSE IF x = t.left[t.parent[x]] THEN [t EXCEPT !.left[t.parent[x]] = y]
              ELSE [t EXCEPT !.right[t.parent[x]] = y]
    IN [t1 EXCEPT !.left[y] = x, !.parent[x] = y]

RB_left_rotate(t, x) ==
    RB_left_rotate_up(RB_left_rotate_down(t, x, t.right[x]), x, t.right[x])

\* _right_rotate without the test of line 151: `y.right.parent = x` is
\* run on the sentinel as well.  The amended C25 fails with it.
RB_right_rotate_down_unguarded(t, x, y) ==
    LET t1 == [t EXCEPT !.left[x] = t.right[y]]
        t2 == [t1 EXCEPT !.parent[t1.right[y]] = x]
    IN [t2 EXCEPT !.parent[y] = t2.parent[x]]

RB_right_rotate_down(t, x, y) ==
    LET t1 == [t EXCEPT !.left[x] = t.right[y]]
        t2 == IF t1.right[y] # NIL THEN [t1 EXCEPT !.parent[t1.right[y]] = x] ELSE t1
    IN [t2 EXCEPT !.parent[y] = t2.parent[x]]

RB_right_rotate_up(t, x, y) ==
    LET t1 == IF t.parent[x] = NoRef THEN [t EXCEPT !.root = y]
              ELSE IF x = t.right[t.parent[x]] THEN [t EXCEPT !.right[t.parent[x]] = y]
              ELSE [t EXCEPT !.left[t.parent[x]] = y]
    IN [t1 EXCEPT !.right[y] = x, !.parent[x] = y]

RB_right_rotate(t, x) ==
    RB_right_rotate_up(RB_right_rotate_down(t, x, t.left[x]), x, t.left[x])

\* Case 1 of _fix_insert (lines 93-96 / 109-112).
RB_fix_insert_recolor(t, node, uncle) ==
    [t |-> [t EXCEPT !.color[t.parent[node]] = BLACK, !.color[uncle] = BLACK,
                     !.color[t.parent[t.parent[node]]] = RED],
     node |-> t.parent[t.parent[node]]]

\* Case 3 of _fix_insert (lines 102-104 / 117-119), `node` being the outer
\* child by now.
RB_fix_insert_outer_left(t, node) ==
    RB_right_rotate([t EXCEPT !.color[t.parent[node]] = BLACK,
                              !.color[t.parent[t.parent[node]]] = RED],
                    t.parent[t.parent[node]])

RB_fix_insert_outer_right(t, node) ==
    RB_left_rotate([t EXCEPT !.color[t.parent[node]] = BLACK,
                             !.color[t.parent[t.parent[node]]] = RED],
                   t.parent[t.parent[node]])

\* One pass through the body of the while loop of _fix_insert (lines
\* 89-119): the heap and the local `node` at the end of the pass.
RB_fix_insert_body(t, node) ==
    LET p == t.parent[node]
        g == t.parent[p]
    IN IF p = t.left[g] THEN
           IF t.color[t.right[g]] = RED THEN RB_fix_insert_recolor(t, node, t.right[g])
           ELSE IF node = t.right[p]
                THEN [t |-> RB_fix_insert_outer_left(RB_left_rotate(t, p), p), node |-> p]
                ELSE [t |-> RB_fix_insert_outer_left(t, node), node |-> node]
       ELSE
           IF t.color[t.left[g]] = RED THEN RB_fix_insert_recolor(t, node, t.left[g])
           ELSE IF node = t.left[p]
                THEN [t |-> RB_fix_insert_outer_right(RB_right_rotate(t, p), p), node |-> p]
                ELSE [t |-> RB_fix_insert_outer_right(t, node), node |-> node]

\* The while loop of _fix_insert with its break (lines 88, 121-123);
\* r is the heap and `node` after a pass.
RECURSIVE RB_fix_insert(_, _)
RECURSIVE RB_fix_insert_next(_)
\* _fix_insert leaving through the break of line 122 without line 123.
\* C12 fails with it.
RB_fix_insert_next_keeps_root(r) ==
    IF r.node = r.t.root THEN r.t ELSE RB_fix_insert(r.t, r.node)

RB_fix_insert_next(r) ==
    IF r.node = r.t.root THEN [r.t EXCEPT !.color[r.t.root] = BLACK]
    ELSE RB_fix_insert(r.t, r.node)

RB_fix_insert(t, node) ==
    IF t.color[t.parent[node]] = RED THEN RB_fix_insert_next(RB_fix_insert_body(t, node))
    ELSE [t EXCEPT !.color[t.root] = BLACK]

\* The descent of insert (lines 48-57): the value of `parent` when the
\* loop ends.
RECURSIVE RB_insert_descend(_, _, _, _)
RB_insert_descend(t, current, parent, key) ==
    IF current # NIL THEN
        IF key < t.key[current] THEN RB_insert_descend(t, t.left[current], current, key)
        ELSE RB_insert_descend(t, t.right[current], current, key)
    ELSE parent

\* insert linking the new node on the other side of its parent.  C30 fails
\* with it.
RB_insert_link_wrong_side(t, key, new_node, parent) ==
    IF parent = NoRef THEN [t EXCEPT !.parent[new_node] = parent, !.root = new_node]
    ELSE IF key < t.key[parent]
         THEN [t EXCEPT !.parent[new_node] = parent, !.right[parent] = new_node]
         ELSE [t EXCEPT !.parent[new_node] = parent, !.left[parent] = new_node]

\* Lines 59-66 of insert.
RB_insert_link(t, key, new_node, parent) ==
    IF parent = NoRef THEN [t EXCEPT !.parent[new_node] = parent, !.root = new_node]
    ELSE IF key < t.key[parent]
         THEN [t EXCEPT !.parent[new_node] = parent, !.left[parent] = new_node]
         ELSE [t EXCEPT !.parent[new_node] = parent, !.right[parent] = new_node]

\* insert without the call of _fix_insert on line 78.  C10 fails with it.
RB_insert_fix_skipped(t, new_node) ==
    IF t.parent[new_node] = NoRef THEN [t EXCEPT !.color[new_node] = BLACK]
    ELSE t

\* Lines 68-78 of insert.
RB_insert_fix(t, new_node) ==
    IF t.parent[new_node] = NoRef THEN [t EXCEPT !.color[new_node] = BLACK]
    ELSE IF t.parent[t.parent[new_node]] = NoRef THEN t
    ELSE RB_fix_insert(t, new_node)

\* insert constructing its node as RBNode(key), with the default links
\* left=None and right=None in place of self.NIL.  C24 fails with it.
RB_insert_default_links(t, key, new_node) ==
    RB_insert_fix(
        RB_insert_link(RBNode(t, new_node, key, RED, NoRef, NoRef, NoRef), key, new_node,
                       RB_insert_descend(t, t.root, NoRef, key)),
        new_node)

RB_insert(t, key, new_node) ==
    RB_insert_fix(
        RB_insert_link(RBNode(t, new_node, key, RED, NIL, NIL, NoRef), key, new_node,
                       RB_insert_descend(t, t.root, NoRef, key)),
        new_node)

RECURSIVE RB_search_helper(_, _, _)
RB_search_helper(t, node, key) ==
    IF node = NIL THEN FALSE
    ELSE IF t.key[node] = key THEN TRUE
    ELSE IF key < t.key[node] THEN RB_search_helper(t, t.left[node], key)
    ELSE RB_search_helper(t, t.right[node], key)

RECURSIVE RB_minimum(_, _)
RB_minimum(t, node) ==
    IF t.left[node] # NIL THEN RB_minimum(t, t.left[node]) ELSE node

\* _rb_transplant without the test of line 243: v always becomes the left
\* child of u's parent.  C3 fails with it.
RB_transplant_left_only(t, u, v) ==
    IF t.parent[u] = NoRef THEN [t EXCEPT !.root = v, !.parent[v] = t.parent[u]]
    ELSE [t EXCEPT !.left[t.parent[u]] = v, !.parent[v] = t.parent[u]]

RB_transplant(t, u, v) ==
    IF t.parent[u] = NoRef THEN [t EXCEPT !.root = v, !.parent[v] = t.parent[u]]
    ELSE IF u = t.left[t.parent[u]]
         THEN [t EXCEPT !.left[t.parent[u]] = v, !.parent[v] = t.parent[u]]
         ELSE [t EXCEPT !.right[t.parent[u]] = v, !.parent[v] = t.parent[u]]

\* _fix_delete, x a left child.  Case 1 (lines 259-263); `sib` is
\* x.parent.right before and after it.
RB_fix_delete_case1_left(t, x) ==
    LET sib == t.right[t.parent[x]] IN
    IF t.color[sib] = RED
    THEN RB_left_rotate([t EXCEPT !.color[sib] = BLACK, !.color[t.parent[x]] = RED],
                        t.parent[x])
    ELSE t

\* Case 3 (lines 270-274).
RB_fix_delete_case3_left(t, x) ==
    LET sib == t.right[t.parent[x]] IN
    IF t.color[t.right[sib]] = BLACK
    THEN RB_right_rotate([t EXCEPT !.color[t.left[sib]] = BLACK, !.color[sib] = RED], sib)
    ELSE t

\* Case 4 (lines 276-279).
RB_fix_delete_case4_left(t, x) ==
    LET sib == t.right[t.parent[x]] IN
    RB_left_rotate([t EXCEPT !.color[sib] = t.color[t.parent[x]],
                             !.color[t.parent[x]] = BLACK,
                             !.color[t.right[sib]] = BLACK],
                   t.parent[x])

\* `x = self.root` (lines 280, 302).
RB_fix_delete_at_root(t) == [t |-> t, x |-> t.root]

\* Case 2 without line 267 (`x = x.parent`): the sibling is recolored and
\* x stays where it is.  C28 fails with it.
RB_fix_delete_rest_left_keeps_x(t, x) ==
    LET sib == t.right[t.parent[x]] IN
    IF t.color[t.left[sib]] = BLACK /\ t.color[t.right[sib]] = BLACK
    THEN [t |-> [t EXCEPT !.color[sib] = RED], x |-> x]
    ELSE RB_fix_delete_at_root(RB_fix_delete_case4_left(RB_fix_delete_case3_left(t, x), x))

\* Lines 265-280, after case 1.
RB_fix_delete_rest_left(t, x) ==
    LET sib == t.right[t.parent[x]] IN
    IF t.color[t.left[sib]] = BLACK /\ t.color[t.right[sib]] = BLACK
    THEN [t |-> [t EXCEPT !.color[sib] = RED], x |-> t.parent[x]]
    ELSE RB_fix_delete_at_root(RB_fix_delete_case4_left(RB_fix_delete_case3_left(t, x), x))

\* The mirror (lines 283-302).
RB_fix_delete_case1_right(t, x) ==
    LET sib == t.left[t.parent[x]] IN
    IF t.color[sib] = RED
    THEN RB_right_rotate([t EXCEPT !.color[sib] = BLACK, !.color[t.parent[x]] = RED],
                         t.parent[x])
    ELSE t

RB_fix_delete_case3_right(t, x) ==
    LET sib == t.left[t.parent[x]] IN
    IF t.color[t.left[sib]] = BLACK
    THEN RB_left_rotate([t EXCEPT !.color[t.right[sib]] = BLACK, !.color[sib] = RED], sib)
    ELSE t

RB_fix_delete_case4_right(t, x) ==
    LET sib == t.left[t.parent[x]] IN
    RB_right_rotate([t EXCEPT !.color[sib] = t.color[t.parent[x]],
                              !.color[t.parent[x]] = BLACK,
                              !.color[t.left[sib]] = BLACK],
                    t.parent[x])

RB_fix_delete_rest_right(t, x) ==
    LET sib == t.left[t.parent[x]] IN
    IF t.color[t.right[sib]] = BLACK /\ t.color[t.left[sib]] = BLACK
    THEN [t |-> [t EXCEPT !.color[sib] = RED], x |-> t.parent[x]]
    ELSE RB_fix_delete_at_root(RB_fix_delete_case4_right(RB_fix_delete_case3_right(t, x), x))

\* One pass through the body of the while loop of _fix_delete (lines
\* 256-302): the heap and the local `x` at the end of the pass.
RB_fix_delete_body(t, x) ==
    IF x = t.left[t.parent[x]]
    THEN RB_fix_delete_rest_left(RB_fix_delete_case1_left(t, x), x)
    ELSE RB_fix_delete_rest_right(RB_fix_delete_case1_right(t, x), x)

\* The while loop of _fix_delete and line 303; s is the heap and `x`.
RECURSIVE RB_fix_delete(_)
RB_fix_delete(s) ==
    IF s.x # s.t.root /\ s.t.color[s.x] = BLACK
    THEN RB_fix_delete(RB_fix_delete_body(s.t, s.x))
    ELSE [s.t EXCEPT !.color[s.x] = BLACK]

\* The search loop of _delete_helper (lines 195-203): the value of `z`
\* when the loop ends.
RECURSIVE RB_delete_find(_, _, _, _)
\* The search loop of _delete_helper without the test of line 198: z is
\* the last node visited.  The amended C14 fails with it.
RB_delete_find_last_visited(t, node, z, key) ==
    IF node # NIL THEN
        IF key < t.key[node] THEN RB_delete_find(t, t.left[node], node, key)
        ELSE RB_delete_find(t, t.right[node], node, key)
    ELSE z

RB_delete_find(t, node, z, key) ==
    IF node # NIL THEN
        IF key < t.key[node]
        THEN RB_delete_find(t, t.left[node], IF t.key[node] = key THEN node ELSE z, key)
        ELSE RB_delete_find(t, t.right[node], IF t.key[node] = key THEN node ELSE z, key)
    ELSE z

\* Lines 223-228: the successor y leaves its place.
RB_delete_detach(t, z, y) ==
    IF t.parent[y] = z THEN [t EXCEPT !.parent[t.right[y]] = y]
    ELSE LET a == RB_transplant(t, y, t.right[y])
         IN [a EXCEPT !.right[y] = a.right[z], !.parent[a.right[z]] = y]

\* Lines 229-233: y takes the place of z.
RB_delete_replace(t, z, y) ==
    LET a == RB_transplant(t, z, y)
    IN [a EXCEPT !.left[y] = a.left[z], !.parent[a.left[z]] = y, !.color[y] = a.color[z]]

\* Lines 209-233 of _delete_helper: the unlinking of z.  Yields the heap,
\* the node x that took the removed place and y_original_color.
RB_delete_unlink(t, z) ==
    IF t.left[z] = NIL THEN
        [t |-> RB_transplant(t, z, t.right[z]), x |-> t.right[z], y_original_color |-> t.color[z]]
    ELSE IF t.right[z] = NIL THEN
        [t |-> RB_transplant(t, z, t.left[z]), x |-> t.left[z], y_original_color |-> t.color[z]]
    ELSE
        LET y == RB_minimum(t, t.right[z]) IN
        [t |-> RB_delete_replace(RB_delete_detach(t, z, y), z, y), x |-> t.right[y],
         y_original_color |-> t.color[y]]

\* _delete_helper without the call of _fix_delete on line 236.  C11 fails
\* with it.
RB_delete_fix_skipped(u) == u.t

\* Lines 235-236.
RB_delete_fix(u) ==
    IF u.y_original_color = BLACK THEN RB_fix_delete([t |-> u.t, x |-> u.x]) ELSE u.t

\* Lines 205-236, z found or NIL.
RB_delete_at(t, z) ==
    IF z = NIL THEN t ELSE RB_delete_fix(RB_delete_unlink(t, z))

RB_delete_helper(t, node, key) == RB_delete_at(t, RB_delete_find(t, node, NIL, key))

\* The objects the program can still reach from self.root and self.NIL,
\* in the order a walk through left, right and parent meets them.
RECURSIVE RB_walk(_, _, _)
RB_walk(t, todo, met) ==
    IF todo = <<>> THEN met
    ELSE LET n == Head(todo) IN
         IF n = NoRef \/ n = NIL \/ \E i \in 1..Len(met) : met[i] = n
         THEN RB_walk(t, Tail(todo), met)
         ELSE RB_walk(t, <<t.left[n], t.right[n], t.parent[n]>> \o Tail(todo), Append(met, n))

RB_order(t) == RB_walk(t, <<t.root, t.left[NIL], t.right[NIL], t.parent[NIL]>>, <<>>)

RB_live(t) == LET order == RB_order(t) IN {NIL} \cup {order[i] : i \in 1..Len(order)}

\* The heap with its reachable objects named 1, 2, ... in walk order.
RB_name(order, n) ==
    IF n = NoRef \/ n = NIL THEN n ELSE CHOOSE i \in 1..Len(order) : order[i] = n

RB_old(order, i) == IF i = NIL THEN NIL ELSE order[i]

RB_renamed(t, order) ==
    LET here == {NIL} \cup (1..Len(order)) IN
    [root |-> RB_name(order, t.root),
     key |-> [i \in RBObjs |-> IF i \in here THEN t.key[RB_old(order, i)] ELSE NoRef],
     color |-> [i \in RBObjs |-> IF i \in here THEN t.color[RB_old(order, i)] ELSE BLACK],
     left |-> [i \in RBObjs |->
                 IF i \in here THEN RB_name(order, t.left[RB_old(order, i)]) ELSE NoRef],
     right |-> [i \in RBObjs |->
                 IF i \in here THEN RB_name(order, t.right[RB_old(order, i)]) ELSE NoRef],
     parent |-> [i \in RBObjs |->
                 IF i \in here THEN RB_name(order, t.parent[RB_old(order, i)]) ELSE NoRef]]

RB_objects(t) == RB_renamed(t, RB_order(t))

\* RBTree.insert / search / delete.
RBTree_insert(self, key) ==
    [self |-> RB_insert(self, key, FreshId(RB_live(self) \ {NIL})),
     ret |-> "None", raised |-> FALSE]

RBTree_search(self, key) ==
    [self |-> self,
     ret |-> IF RB_search_helper(self, self.root, key) THEN "True" ELSE "False",
     raised |-> FALSE]

RBTree_delete(self, key) ==
    [self |-> RB_delete_helper(self, self.root, key), ret |-> "None", raised |-> FALSE]

(***************************************************************************)
(* The caller (src/A2/test.py, src/A2/main.py): constructs one tree of one *)
(* class and calls insert, search and delete on it, one call at a time.    *)
(*   engine  the class the caller constructed                              *)
(*   raised  an exception left a call; nothing catches it                  *)
(*   count   per key, calls of insert(k) minus calls of delete(k) made     *)
(*           while that number was positive                                *)
(*   removed some call of delete was made for a key counted in `count`     *)
(* The variables of the filters of src/test.py are described with them;    *)
(* a caller of the trees constructs no filter.                             *)
(*                                                                         *)
(* The program tells objects apart by identity alone, so between calls a   *)
(* tree is kept up to the renaming of its objects: AVL_Tree_objects,       *)
(* Treap_objects and RB_objects name them in traversal order, and drop the *)
(* objects nothing refers to any more.                                     *)
(***************************************************************************)
filters == <<bloom, cuckoo, xxh32, inserted>>

\* The call in progress and its locals where a call is followed loop pass
\* by loop pass and frame by frame (the section on the running call);
\* everywhere else a call is one step and no call is ever in progress.
\*   pc        the loop or recursion the call is in, "idle" between calls
\*   key       the argument of the call;  priority  the draw of an insert
\*   k         the key argument of the current frame of a recursion
\*   node      the cursor of a Red-Black loop (current, node, x)
\*   z         `parent` of insert, `z` of _delete_helper
\*   new_node  the node insert constructed
\*   frame     the `node` argument of the current AVL / Treap frame
\*   current   the cursor of _min_value_node
\*   steps     how many loop tests and frames the call has gone through
Idle ==
    [pc |-> "idle", key |-> 0, priority |-> 0, k |-> 0, node |-> NoRef, z |-> NoRef,
     new_node |-> NoRef, frame |-> None, current |-> None, steps |-> 0]

NoFilter == bloom = None /\ cuckoo = None /\ xxh32 = None /\ inserted = {}

Init ==
    /\ engine \in Engines
    /\ avl = [root |-> None]
    /\ rb = RBTree_init
    /\ treap = [root |-> None]
    /\ raised = FALSE
    /\ count = [k \in Keys |-> 0]
    /\ removed = FALSE
    /\ NoFilter
    /\ run = Idle

Called(name, k, r) ==
    /\ UNCHANGED <<filters, run>>
    /\ raised' = r.raised
    /\ count' = IF name = "insert" THEN [count EXCEPT ![k] = @ + 1]
                ELSE IF name = "delete" /\ count[k] > 0 THEN [count EXCEPT ![k] = @ - 1]
                ELSE count
    /\ removed' = (removed \/ (name = "delete" /\ count[k] > 0))

AVLInsert(k) ==
    /\ engine = "avl" /\ ~raised
    /\ Size(avl.root) < MaxAVLNodes
    /\ LET r == AVLTree_insert(avl, k)
       IN avl' = AVL_Tree_objects(r.self) /\ Called("insert", k, r)
    /\ UNCHANGED <<engine, rb, treap>>

AVLSearch(k) ==
    /\ engine = "avl" /\ ~raised
    /\ LET r == AVLTree_search(avl, k)
       IN avl' = AVL_Tree_objects(r.self) /\ Called("search", k, r)
    /\ UNCHANGED <<engine, rb, treap>>

AVLDelete(k) ==
    /\ engine = "avl" /\ ~raised
    /\ LET r == AVLTree_delete(avl, k)
       IN avl' = AVL_Tree_objects(r.self) /\ Called("delete", k, r)
    /\ UNCHANGED <<engine, rb, treap>>

RBInsert(k) ==
    /\ engine = "rb" /\ ~raised
    /\ Cardinality(RB_live(rb) \ {NIL}) < MaxRBNodes
    /\ LET r == RBTree_insert(rb, k)
       IN rb' = RB_objects(r.self) /\ Called("insert", k, r)
    /\ UNCHANGED <<engine, avl, treap>>

RBSearch(k) ==
    /\ engine = "rb" /\ ~raised
    /\ LET r == RBTree_search(rb, k)
       IN rb' = RB_objects(r.self) /\ Called("search", k, r)
    /\ UNCHANGED <<engine, avl, treap>>

RBDelete(k) ==
    /\ engine = "rb" /\ ~raised
    /\ LET r == RBTree_delete(rb, k)
       IN rb' = RB_objects(r.self) /\ Called("delete", k, r)
    /\ UNCHANGED <<engine, avl, treap>>

TreapInsert(k, p) ==
    /\ engine = "treap" /\ ~raised
    /\ Size(treap.root) < MaxTreapNodes
    /\ LET r == Treap_insert_call(treap, k, p)
       IN treap' = Treap_objects(r.self) /\ Called("insert", k, r)
    /\ UNCHANGED <<engine, avl, rb>>

TreapSearch(k) ==
    /\ engine = "treap" /\ ~raised
    /\ LET r == Treap_search_call(treap, k)
       IN treap' = Treap_objects(r.self) /\ Called("search", k, r)
    /\ UNCHANGED <<engine, avl, rb>>

TreapDelete(k) ==
    /\ engine = "treap" /\ ~raised
    /\ LET r == Treap_delete_call(treap, k)
       IN treap' = Treap_objects(r.self) /\ Called("delete", k, r)
    /\ UNCHANGED <<engine, avl, rb>>

Next ==
    \/ \E k \in Keys : AVLInsert(k)
    \/ \E k \in Keys : AVLSearch(k)
    \/ \E k \in Keys : AVLDelete(k)
    \/ \E k \in Keys : RBInsert(k)
    \/ \E k \in Keys : RBSearch(k)
    \/ \E k \in Keys : RBDelete(k)
    \/ \E k \in Keys, p \in Prios : TreapInsert(k, p)
    \/ \E k \in Keys : TreapSearch(k)
    \/ \E k \in Keys : TreapDelete(k)

Spec == Init /\ [][Next]_vars

(***************************************************************************)
(* What a caller can observe of the tree it holds, and what a further call *)
(* would do to it.                                                         *)
(***************************************************************************)
Tree == CASE engine = "avl" -> avl [] engine = "rb" -> rb [] OTHER -> treap

SearchCall(self, k) ==
    CASE engine = "avl" -> AVLTree_search(self, k)
      [] engine = "rb" -> RBTree_search(self, k)
      [] OTHER -> Treap_search_call(self, k)

DeleteCall(self, k) ==
    CASE engine = "avl" -> AVLTree_delete(self, k)
      [] engine = "rb" -> RBTree_delete(self, k)
      [] OTHER -> Treap_delete_call(self, k)

Found(self, k) == SearchCall(self, k).ret = "True"

\* The real nodes below (and with) node n of a Red-Black tree.
RECURSIVE RB_subtree(_, _)
RB_subtree(t, n) ==
    IF n = NIL THEN {} ELSE {n} \cup RB_subtree(t, t.left[n]) \cup RB_subtree(t, t.right[n])

RECURSIVE RB_in_order(_, _)
RB_in_order(t, n) ==
    IF n = NIL THEN <<>>
    ELSE RB_in_order(t, t.left[n]) \o <<t.key[n]>> \o RB_in_order(t, t.right[n])

RB_key_set(t, n) == {t.key[m] : m \in RB_subtree(t, n)}

\* The nodes of an AVL or Treap tree, each with all that hangs below it.
RECURSIVE Subtrees(_)
Subtrees(node) ==
    IF node = None THEN {} ELSE {node} \cup Subtrees(node.left) \cup Subtrees(node.right)

KeySet(node) == {n.key : n \in Subtrees(node)}

KeysInOrder(self) ==
    IF engine = "rb" THEN RB_in_order(self, self.root) ELSE InOrder(self.root)

\* The number of entries with key k the tree holds.
Entries(self, k) ==
    LET keys == KeysInOrder(self) IN Cardinality({i \in 1..Len(keys) : keys[i] = k})

\* For each node: its key, the keys of its left and of its right subtree.
Sides(self) ==
    IF engine = "rb"
    THEN {[key |-> self.key[n], left |-> RB_key_set(self, self.left[n]),
           right |-> RB_key_set(self, self.right[n])] : n \in RB_subtree(self, self.root)}
    ELSE {[key |-> n.key, left |-> KeySet(n.left), right |-> KeySet(n.right)] :
           n \in Subtrees(self.root)}

RECURSIVE TrueHeight(_)
TrueHeight(node) ==
    IF node = None THEN 0 ELSE 1 + Max(TrueHeight(node.left), TrueHeight(node.right))

(***************************************************************************)
(* C1.  Once insert(k) has been called, search(k) returns True in every    *)
(* later state up to the next call of delete(k), whatever other keys, and  *)
(* further copies of k, are inserted or deleted in between.  Step by step: *)
(* search(k) is True right after a call of insert(k), the call that raises *)
(* count[k], and where search(k) is True it is still True after any call   *)
(* that is not a delete(k), the one call that lowers count[k].             *)
(***************************************************************************)
C1_FoundUntilDeleted ==
    [][\A k \in Keys :
          /\ count'[k] > count[k] => Found(Tree', k)
          /\ (Found(Tree, k) /\ count'[k] >= count[k]) => Found(Tree', k)]_vars

\* Two copies of k went in, another key is held as well, and an entry was
\* deleted on the way.
C1_Witness ==
    \E k \in Keys : \E j \in Keys \ {k} :
        count[k] >= 2 /\ count[j] >= 1 /\ removed /\ Found(Tree, k)

(***************************************************************************)
(* C2.  As claimed: if search(k) is True and delete(k) is then called,     *)
(* search(k) is False immediately afterwards.                              *)
(***************************************************************************)
C2_DeleteMakesAbsent ==
    \A k \in Keys : Found(Tree, k) => ~Found(DeleteCall(Tree, k).self, k)

(***************************************************************************)
(* C2, amended.  If search(k) is True and delete(k) is then called, one    *)
(* entry with key k is removed: search(k) is False immediately afterwards  *)
(* when that was the only entry with key k, and True when copies remain.   *)
(***************************************************************************)
C2_DeleteRemovesOneEntry ==
    \A k \in Keys :
        Found(Tree, k) =>
            /\ Entries(DeleteCall(Tree, k).self, k) = Entries(Tree, k) - 1
            /\ Found(DeleteCall(Tree, k).self, k) <=> (Entries(Tree, k) > 1)

\* After a delete, one key is held once and another more than once.
C2_Witness ==
    /\ removed
    /\ \E k \in Keys : Entries(Tree, k) = 1
    /\ \E k \in Keys : Entries(Tree, k) > 1

(***************************************************************************)
(* C3.  For every pair of keys j # k, delete(k), with k present or absent, *)
(* leaves the result of search(j) unchanged.                               *)
(***************************************************************************)
C3_DeleteKeepsOtherKeys ==
    \A k \in Keys : \A j \in Keys \ {k} :
        Found(DeleteCall(Tree, k).self, j) = Found(Tree, j)

\* A tree from which a key was deleted, holding a key j while a key k is
\* absent and a third is present: delete of either leaves j to be found.
C3_Witness ==
    /\ removed
    /\ \E k \in Keys : ~Found(Tree, k)
    /\ Cardinality({j \in Keys : Found(Tree, j)}) >= 2
    /\ Len(KeysInOrder(Tree)) >= 3

(***************************************************************************)
(* C4.  delete(k) for a key k that search reports absent leaves the tree   *)
(* structurally unchanged: the root, every node's links, keys and metadata *)
(* are identical before and after the call.                                *)
(***************************************************************************)
C4_AbsentDeleteChangesNothing ==
    \A k \in Keys : ~Found(Tree, k) => DeleteCall(Tree, k).self = Tree

(***************************************************************************)
(* C5.  search(k) returns True exactly when the tree holds at least one    *)
(* entry with key k, and the tree holds one entry per insert(k) call minus *)
(* one per delete(k) call made while an entry with key k was present; so   *)
(* search of a never-inserted key returns False.                           *)
(***************************************************************************)
C5_MultisetSemantics ==
    \A k \in Keys :
        /\ Entries(Tree, k) = count[k]
        /\ Found(Tree, k) <=> (Entries(Tree, k) >= 1)

\* After a delete: a key held twice, a key held once and a key not held.
C5_Witness ==
    /\ removed
    /\ \E k \in Keys : count[k] >= 2 /\ Entries(Tree, k) >= 2
    /\ \E k \in Keys : count[k] = 0 /\ ~Found(Tree, k)
    /\ \E k \in Keys : count[k] = 1 /\ Found(Tree, k)

(***************************************************************************)
(* C6.  search(k) returns a boolean and does not modify the tree: root,    *)
(* links, keys and metadata are unchanged, whether or not k is present.    *)
(***************************************************************************)
C6_SearchIsPure ==
    \A k \in Keys :
        /\ SearchCall(Tree, k).ret \in {"True", "False"}
        /\ SearchCall(Tree, k).self = Tree

\* A tree of several nodes in which one key is found below the root and
\* another is not found.
C6_Witness ==
    /\ Len(KeysInOrder(Tree)) >= 3
    /\ \E k \in Keys : SearchCall(Tree, k).ret = "False"
    /\ \E k \in Keys : SearchCall(Tree, k).ret = "True" /\ Tree.root # None /\ Entries(Tree, k) = 1

(***************************************************************************)
(* C7.  After every operation the in-order traversal of the tree's keys is *)
(* non-decreasing.                                                         *)
(***************************************************************************)
C7_InOrderNonDecreasing ==
    LET keys == KeysInOrder(Tree)
    IN \A i \in 1..(Len(keys) - 1) : keys[i] <= keys[i + 1]

\* Duplicates and distinct keys together, after a delete.
C7_Witness ==
    /\ Len(KeysInOrder(Tree)) >= 4
    /\ \E k \in Keys : Entries(Tree, k) >= 2
    /\ Cardinality({k \in Keys : Entries(Tree, k) >= 1}) >= 2
    /\ removed

(***************************************************************************)
(* C8.  As claimed: every key stored in a node's left subtree is strictly  *)
(* less than that node's key, so that any duplicate of a node's key lies   *)
(* in its right subtree.                                                   *)
(***************************************************************************)
C8_LeftStrictlyLess ==
    \A n \in Sides(Tree) : \A x \in n.left : x < n.key

(***************************************************************************)
(* C8, amended.  Every key stored in a node's left subtree is less than or *)
(* equal to that node's key and every key in its right subtree is greater  *)
(* than or equal to it; a duplicate of a node's key can lie in either      *)
(* subtree.                                                                *)
(***************************************************************************)
C8_LeftNotGreater ==
    \A n \in Sides(Tree) :
        /\ \A x \in n.left : x <= n.key
        /\ \A x \in n.right : x >= n.key

\* A node with a copy of its own key in its left subtree.
C8_Witness ==
    \E n \in Sides(Tree) : n.key \in n.left /\ n.right # {}

(***************************************************************************)
(* C9.  AVLTree: after every operation every node satisfies                *)
(* |height(left subtree) - height(right subtree)| <= 1, the heights being  *)
(* the true subtree heights.                                               *)
(***************************************************************************)
C9_AVLBalanced ==
    engine = "avl" =>
        \A n \in Subtrees(avl.root) :
            /\ TrueHeight(n.left) - TrueHeight(n.right) <= 1
            /\ TrueHeight(n.right) - TrueHeight(n.left) <= 1

(***************************************************************************)
(* C10.  RBTree: after every insert or delete no RED node has a RED child. *)
(***************************************************************************)
C10_NoRedRed ==
    \A n \in RB_subtree(rb, rb.root) :
        rb.color[n] = RED => rb.color[rb.left[n]] = BLACK /\ rb.color[rb.right[n]] = BLACK

\* A Red-Black tree, after a delete, with a RED node that has two children.
C10_Witness ==
    /\ engine = "rb"
    /\ removed
    /\ \E n \in RB_subtree(rb, rb.root) :
           rb.color[n] = RED /\ rb.left[n] # NIL /\ rb.right[n] # NIL

\* The number of BLACK nodes on every path from node n down to NIL, n and
\* NIL not counted below NIL; -1 when two paths differ.
RECURSIVE RB_black_height(_, _)
RB_black_height(t, n) ==
    IF n = NIL THEN 0
    ELSE LET l == RB_black_height(t, t.left[n])
             r == RB_black_height(t, t.right[n])
         IN IF l = -1 \/ r = -1 \/ l # r THEN -1
            ELSE l + (IF t.color[n] = BLACK THEN 1 ELSE 0)

(***************************************************************************)
(* C11.  RBTree: after every insert or delete every path from the root,    *)
(* and from any node, down to NIL passes through the same number of BLACK  *)
(* nodes.                                                                  *)
(***************************************************************************)
C11_EqualBlackHeight ==
    \A n \in RB_subtree(rb, rb.root) : RB_black_height(rb, n) # -1

\* A Red-Black tree of black height two with RED and BLACK nodes below the
\* root, after a delete.
C11_Witness ==
    /\ engine = "rb"
    /\ removed
    /\ RB_black_height(rb, rb.root) >= 2
    /\ \E n \in RB_subtree(rb, rb.root) : rb.color[n] = RED
    /\ Cardinality(RB_subtree(rb, rb.root)) >= 4

(***************************************************************************)
(* C12.  RBTree: after every insert or delete the root is BLACK, also when *)
(* the first key is inserted, when the root itself is deleted and when the *)
(* tree becomes empty and the root is NIL.                                 *)
(***************************************************************************)
C12_RootBlack == rb.color[rb.root] = BLACK

\* A Red-Black tree that held keys and was emptied by delete: the root is
\* NIL again.
C12_Witness ==
    /\ engine = "rb"
    /\ removed
    /\ rb.root = NIL
    /\ \A k \in Keys : count[k] = 0

(***************************************************************************)
(* C13.  Treap: after every insert or delete, whatever priorities the      *)
(* created nodes drew, every node's priority is >= the priority of each of *)
(* its children.                                                           *)
(***************************************************************************)
C13_HeapOrder ==
    \A n \in Subtrees(treap.root) :
        /\ n.left # None => n.priority >= n.left.priority
        /\ n.right # None => n.priority >= n.right.priority

\* A Treap, after a delete, with a child of lower priority and a child of
\* the same priority as its parent.
C13_Witness ==
    /\ engine = "treap"
    /\ removed
    /\ \E n \in Subtrees(treap.root) :
           \/ n.left # None /\ n.left.priority < n.priority
           \/ n.right # None /\ n.right.priority < n.priority
    /\ \E n \in Subtrees(treap.root) :
           \/ n.left # None /\ n.left.priority = n.priority
           \/ n.right # None /\ n.right.priority = n.priority

\* The tree after delete(k), and after a second delete(k) at once.
DeletedOnce(k) == DeleteCall(Tree, k).self

DeletedTwice(k) == DeleteCall(DeletedOnce(k), k).self

\* Every node below `node` has subtrees whose true heights differ by at
\* most one.
Balanced(node) ==
    \A n \in Subtrees(node) : TrueHeight(n.left) - TrueHeight(n.right) \in {-1, 0, 1}

RECURSIVE Drained(_, _)
Drained(self, S) ==
    IF S = {} THEN {self}
    ELSE UNION {Drained(DeleteCall(self, k).self, S \ {k}) : k \in S}

EmptyRoot == IF engine = "rb" THEN NIL ELSE None

\* Nothing was removed yet and no key was inserted twice: the tree is what
\* inserting the set of keys it holds into an empty tree made it.
DistinctKeysInserted == ~removed /\ \A k \in Keys : count[k] <= 1

(***************************************************************************)
(* C15.  After a set of distinct keys is inserted into an empty tree and   *)
(* delete is called once for each of those keys, the tree is empty (root   *)
(* None for AVL and Treap, NIL for Red-Black) and search returns False for *)
(* every one of the keys.                                                  *)
(***************************************************************************)
C15_DrainedToEmpty ==
    DistinctKeysInserted =>
        \A t \in Drained(Tree, {k \in Keys : count[k] = 1}) :
            /\ t.root = EmptyRoot
            /\ \A k \in Keys : ~Found(t, k)

\* Every key of the range was inserted once, and nothing deleted yet.
C15_Witness ==
    /\ DistinctKeysInserted
    /\ \A k \in Keys : count[k] = 1 /\ Found(Tree, k)
    /\ Tree.root # EmptyRoot

(***************************************************************************)
(* C16.  insert, search and delete are total over integer keys: in every   *)
(* reachable state, duplicates, absent keys and the empty tree included,   *)
(* no call raises an error; no rotation or fixup step dereferences a       *)
(* missing child, parent or grandparent.                                   *)
(***************************************************************************)
C16_NoCallRaises == ~raised

(***************************************************************************)
(* The benchmark caller (src/A2/main.py): the same keys go to a tree of    *)
(* each class.  Here the three trees are driven in lockstep: every call is *)
(* made on the AVLTree, the RBTree and the Treap with the same key, the    *)
(* Treap drawing any priority.  `engine` is "all".                         *)
(***************************************************************************)
InitAll ==
    /\ engine = "all"
    /\ avl = [root |-> None]
    /\ rb = RBTree_init
    /\ treap = [root |-> None]
    /\ raised = FALSE
    /\ count = [k \in Keys |-> 0]
    /\ removed = FALSE
    /\ NoFilter
    /\ run = Idle

AllInsert(k, p) ==
    /\ engine = "all" /\ ~raised
    /\ Size(avl.root) < MaxAVLNodes
    /\ Cardinality(RB_live(rb) \ {NIL}) < MaxRBNodes
    /\ Size(treap.root) < MaxTreapNodes
    /\ LET r == AVLTree_insert(avl, k)
       IN avl' = AVL_Tree_objects(r.self) /\ Called("insert", k, r)
    /\ rb' = RB_objects(RBTree_insert(rb, k).self)
    /\ treap' = Treap_objects(Treap_insert_call(treap, k, p).self)
    /\ UNCHANGED engine

AllSearch(k) ==
    /\ engine = "all" /\ ~raised
    /\ LET r == AVLTree_search(avl, k)
       IN avl' = AVL_Tree_objects(r.self) /\ Called("search", k, r)
    /\ rb' = RB_objects(RBTree_search(rb, k).self)
    /\ treap' = Treap_objects(Treap_search_call(treap, k).self)
    /\ UNCHANGED engine

AllDelete(k) ==
    /\ engine = "all" /\ ~raised
    /\ LET r == AVLTree_delete(avl, k)
       IN avl' = AVL_Tree_objects(r.self) /\ Called("delete", k, r)
    /\ rb' = RB_objects(RBTree_delete(rb, k).self)
    /\ treap' = Treap_objects(Treap_delete_call(treap, k).self)
    /\ UNCHANGED engine

NextAll ==
    \/ \E k \in Keys, p \in Prios : AllInsert(k, p)
    \/ \E k \in Keys : AllSearch(k)
    \/ \E k \in Keys : AllDelete(k)

SpecAll == InitAll /\ [][NextAll]_vars

(***************************************************************************)
(* C17.  The three engines are observationally equivalent: when the same   *)
(* sequence of insert and delete calls is applied to an AVLTree, an RBTree *)
(* and a Treap, with any priorities, search(k) returns the same value in   *)
(* all three for every key k after every step.                             *)
(***************************************************************************)
C17_SameSearchResults ==
    engine = "all" =>
        \A k \in Keys :
            /\ AVLTree_search(avl, k).ret = RBTree_search(rb, k).ret
            /\ RBTree_search(rb, k).ret = Treap_search_call(treap, k).ret

\* After a delete, the three trees hold the same keys under roots with
\* different keys; one key is found in all three and one in none.
C17_Witness ==
    /\ engine = "all"
    /\ removed
    /\ avl.root # None /\ treap.root # None /\ rb.root # NIL
    /\ avl.root.key # treap.root.key
    /\ rb.key[rb.root] # treap.root.key
    /\ \E k \in Keys : AVLTree_search(avl, k).ret = "True"
    /\ \E k \in Keys : Treap_search_call(treap, k).ret = "False"

(***************************************************************************)
(* src/test.py: OptimizedBloomFilter.                                      *)
(*   bloom     the filter object [m, k, bit_array]                         *)
(*   xxh32     per login, the value xxhash.xxh32(str(login)).intdigest()   *)
(*             returns: any function; logins being told apart by their     *)
(*             digests alone, they are numbered in the order of these      *)
(*   inserted  the logins insert was called with                           *)
(***************************************************************************)
Logins == Keys

Digests == 0..MaxDigest

Hashes == {h \in [Logins -> Digests] : \A x, y \in Logins : x < y => h[x] <= h[y]}

\* __init__ with the default fp_rate = 0.01: -log(fp_rate) / log(2)**2 is
\* 9.585... and log(2) is 0.6931..., int() truncates.
DefaultBitsPerItem == 9585

Log2 == 6931

MinHashFunctions == 7

OptimizedBloomFilter(n) ==
    LET m == (n * DefaultBitsPerItem) \div 1000
    IN [m |-> m,
        k |-> Max(MinHashFunctions, (m * Log2) \div (n * 10000)),
        bit_array |-> [i \in 0..(m - 1) |-> FALSE]]

Bloom_hash(self, login, seed) == (xxh32[login] + seed * 31) % self.m

\* insert with line 70 reading `for i in range(1)`: only the first hash
\* function sets its bit.  C18 fails with it.
Bloom_insert_one_hash(self, login) ==
    [self EXCEPT !.bit_array = [i \in 0..(self.m - 1) |->
                                   @[i] \/ Bloom_hash(self, login, 0) = i]]

Bloom_insert(self, login) ==
    [self EXCEPT !.bit_array = [i \in 0..(self.m - 1) |->
                                   @[i] \/ \E seed \in 0..(self.k - 1) :
                                               Bloom_hash(self, login, seed) = i]]

Bloom_check(self, login) ==
    \A seed \in 0..(self.k - 1) : self.bit_array[Bloom_hash(self, login, seed)]

InitBloom ==
    /\ engine = "bloom"
    /\ avl = [root |-> None]
    /\ rb = RBTree_init
    /\ treap = [root |-> None]
    /\ raised = FALSE
    /\ count = [k \in Keys |-> 0]
    /\ removed = FALSE
    /\ \E n \in 1..MaxItems : bloom = OptimizedBloomFilter(n)
    /\ cuckoo = None
    /\ xxh32 \in Hashes
    /\ inserted = {}
    /\ run = Idle

BloomInsert(x) ==
    /\ engine = "bloom"
    /\ bloom' = Bloom_insert(bloom, x)
    /\ inserted' = inserted \cup {x}
    /\ UNCHANGED <<engine, avl, rb, treap, raised, count, removed, cuckoo, xxh32, run>>

BloomCheck(x) ==
    /\ engine = "bloom"
    /\ Bloom_check(bloom, x) \in BOOLEAN
    /\ UNCHANGED vars

NextBloom ==
    \/ \E x \in Logins : BloomInsert(x)
    \/ \E x \in Logins : BloomCheck(x)

SpecBloom == InitBloom /\ [][NextBloom]_vars

(***************************************************************************)
(* C18.  OptimizedBloomFilter has no false negatives: for any sequence of  *)
(* insert calls and any hash function, once insert(x) has been called      *)
(* check(x) returns True in every later state.                             *)
(***************************************************************************)
C18_NoFalseNegatives ==
    engine = "bloom" => \A x \in inserted : Bloom_check(bloom, x)

\* Two logins of different digests were inserted, and check is False for a
\* third.
C18_Witness ==
    /\ engine = "bloom"
    /\ \E x, y \in inserted : xxh32[x] # xxh32[y]
    /\ \E z \in Logins \ inserted : ~Bloom_check(bloom, z)

(***************************************************************************)
(* src/test.py: UltraFastCuckooFilter.                                     *)
(*   cuckoo  the filter object [capacity, bucket_size, buckets]; a bucket  *)
(*           is a bytearray, written as a function from 0..bucket_size-1   *)
(* _insert returns a value and changes the object: [self, ret].            *)
(***************************************************************************)
FingerprintValues == 32

UltraFastCuckooFilter(capacity, bucket_size) ==
    [capacity |-> 4 * capacity,
     bucket_size |-> bucket_size,
     buckets |-> [i \in 0..(4 * capacity - 1) |-> [idx \in 0..(bucket_size - 1) |-> 0]]]

\* `& 0b11111` keeps the five low bits.
Cuckoo_fingerprint(login) == xxh32[login] % FingerprintValues

Cuckoo_hash1(self, login) == xxh32[login] % self.capacity

Cuckoo_hash2(self, fingerprint) ==
    (self.capacity - 1) - (fingerprint % (self.capacity - 1))

Cuckoo_insert_at(self, fp, index) ==
    LET free == {idx \in 0..(self.bucket_size - 1) : self.buckets[index][idx] = 0}
    IN IF free = {} THEN [self |-> self, ret |-> FALSE]
       ELSE LET idx == CHOOSE i \in free : \A j \in free : i <= j
            IN [self |-> [self EXCEPT !.buckets[index][idx] = fp], ret |-> TRUE]

Cuckoo_insert(self, login) ==
    LET fp == Cuckoo_fingerprint(login)
        first == Cuckoo_insert_at(self, fp, Cuckoo_hash1(self, login))
    IN IF first.ret THEN first
       ELSE Cuckoo_insert_at(self, fp, Cuckoo_hash2(self, fp))

Cuckoo_check(self, login) ==
    LET fp == Cuckoo_fingerprint(login)
        i1 == Cuckoo_hash1(self, login)
        i2 == Cuckoo_hash2(self, fp)
    IN \/ \E idx \in 0..(self.bucket_size - 1) : self.buckets[i1][idx] = fp
       \/ \E idx \in 0..(self.bucket_size - 1) : self.buckets[i2][idx] = fp

InitCuckoo ==
    /\ engine = "cuckoo"
    /\ avl = [root |-> None]
    /\ rb = RBTree_init
    /\ treap = [root |-> None]
    /\ raised = FALSE
    /\ count = [k \in Keys |-> 0]
    /\ removed = FALSE
    /\ bloom = None
    /\ \E capacity \in 1..MaxItems, bucket_size \in 1..MaxBucketSize :
           cuckoo = UltraFastCuckooFilter(capacity, bucket_size)
    /\ xxh32 \in Hashes
    /\ inserted = {}
    /\ run = Idle

CuckooInsert(x) ==
    /\ engine = "cuckoo"
    /\ cuckoo' = Cuckoo_insert(cuckoo, x).self
    /\ inserted' = inserted \cup {x}
    /\ UNCHANGED <<engine, avl, rb, treap, raised, count, removed, bloom, xxh32, run>>

CuckooCheck(x) ==
    /\ engine = "cuckoo"
    /\ Cuckoo_check(cuckoo, x) \in BOOLEAN
    /\ UNCHANGED vars

NextCuckoo ==
    \/ \E x \in Logins : CuckooInsert(x)
    \/ \E x \in Logins : CuckooCheck(x)

SpecCuckoo == InitCuckoo /\ [][NextCuckoo]_vars

(***************************************************************************)
(* C19.  UltraFastCuckooFilter: for any sequence of insert calls, any hash *)
(* values, any bucket size and capacity, once insert(x) has been called    *)
(* check(x) returns True.                                                  *)
(***************************************************************************)
C19_InsertedIsFound ==
    engine = "cuckoo" => \A x \in inserted : Cuckoo_check(cuckoo, x)

(***************************************************************************)
(* C20.  AVLTree: after every insert or delete, every node's stored height *)
(* field equals 1 + max(true height of its left subtree, true height of    *)
(* its right subtree), an empty subtree having height 0, so that every     *)
(* node's height is at least 1.  The rotations are part of those calls:    *)
(* both rotated nodes carry their correct heights afterwards.              *)
(***************************************************************************)
C20_StoredHeights ==
    engine = "avl" =>
        \A n \in Subtrees(avl.root) :
            /\ n.height = 1 + Max(TrueHeight(n.left), TrueHeight(n.right))
            /\ n.height >= 1

\* A full tree on three levels after inserts and a delete, with an inner
\* node of height 2 above two children.
C20_Witness ==
    /\ engine = "avl"
    /\ removed
    /\ Size(avl.root) = MaxAVLNodes
    /\ avl.root.height = 3
    /\ \E n \in Subtrees(avl.root) : n.height = 2 /\ n.left # None /\ n.right # None

(***************************************************************************)
(* C21.  AVLTree.insert: while unwinding, every ancestor whose recomputed  *)
(* balance factor has absolute value > 1 is rebalanced by one of the four  *)
(* rotation cases; no inserted key and tree state lets a frame of _insert  *)
(* reach `return node` (line 114) with |balance| > 1.                      *)
(***************************************************************************)
\* The frame of _insert at `node`, after lines 85-92: the child link and the
\* height are written, the balance factor is read.
AVL_insert_frame(node, key, id) ==
    LET sub == IF key < node.key THEN AVL_insert(node.left, key, id)
               ELSE AVL_insert(node.right, key, id)
        n == IF key < node.key THEN [node EXCEPT !.left = sub.node]
             ELSE [node EXCEPT !.right = sub.node]
    IN [raised |-> sub.raised,
        node |-> [n EXCEPT !.height = 1 + Max(get_height(n.left), get_height(n.right))]]

\* None of the tests of lines 97, 101, 105 and 110 holds although the
\* balance factor is out of range: the frame falls through to line 114.
AVL_insert_falls_through(n, key) ==
    LET balance == get_balance(n) IN
    /\ balance > 1 \/ balance < -1
    /\ ~(balance > 1 /\ key < n.left.key)
    /\ ~(balance < -1 /\ key > n.right.key)
    /\ ~(balance > 1 /\ key > n.left.key)
    /\ ~(balance < -1 /\ key < n.right.key)

\* Some frame of the call _insert(node, key) returns its node unrotated
\* with a balance factor out of range.
RECURSIVE AVL_insert_returns_unrotated(_, _, _)
AVL_insert_returns_unrotated(node, key, id) ==
    IF node = None THEN FALSE
    ELSE \/ AVL_insert_returns_unrotated(IF key < node.key THEN node.left ELSE node.right,
                                          key, id)
         \/ LET f == AVL_insert_frame(node, key, id)
            IN ~f.raised /\ AVL_insert_falls_through(f.node, key)

C21_UnbalancedIsRotated ==
    (engine = "avl" /\ Size(avl.root) < MaxAVLNodes) =>
        \A k \in Keys :
            ~AVL_insert_returns_unrotated(avl.root, k, FreshId(NodeIds(avl.root)))

(***************************************************************************)
(* C22.  For every engine, deleting a key held by a node with two children *)
(* does not remove that node object: the in-order successor's key is       *)
(* copied into it, and the node object that is unlinked has at most one    *)
(* child at the moment it is unlinked.                                     *)
(***************************************************************************)
\* The node at which the descent of AVLTree._delete / Treap._delete for
\* `key` arrives at its `else` branch (the node found), or None.
RECURSIVE BST_delete_found(_, _)
BST_delete_found(node, key) ==
    IF node = None THEN None
    ELSE IF key < node.key THEN BST_delete_found(node.left, key)
    ELSE IF key > node.key THEN BST_delete_found(node.right, key)
    ELSE node

\* The node object Treap._delete returns past (lines 120-123), with the
\* children it has at that moment, after the rotations that moved it down.
RECURSIVE Treap_delete_unlinked(_, _)
Treap_delete_unlinked(node, key) ==
    IF node = None THEN None
    ELSE IF key < node.key THEN Treap_delete_unlinked(node.left, key)
    ELSE IF key > node.key THEN Treap_delete_unlinked(node.right, key)
    ELSE IF node.left = None \/ node.right = None THEN node
    ELSE IF node.left.priority > node.right.priority
         THEN Treap_delete_unlinked(Treap_right_rotate(node).right, key)
         ELSE Treap_delete_unlinked(Treap_left_rotate(node).left, key)

\* The node of the tree below `root` that is the object `id`.
NodeOf(root, id) == CHOOSE n \in Subtrees(root) : n.id = id

TwoChildren(node) == node # None /\ node.left # None /\ node.right # None

\* AVLTree: the found node object stays, now with the key of the leftmost
\* node of its right subtree; one object leaves the tree, and it had at
\* most one child (nothing below the found node is relinked before the
\* successor's frame returns its child).
AVL_DeleteCopiesSuccessor(self, k) ==
    LET z == BST_delete_found(self.root, k)
        after == AVLTree_delete(self, k).self
        gone == NodeIds(self.root) \ NodeIds(after.root)
    IN TwoChildren(z) =>
        /\ z.id \in NodeIds(after.root)
        /\ NodeOf(after.root, z.id).key = AVL_min_value_node(z.right).key
        /\ Cardinality(gone) = 1
        /\ \A id \in gone : ~TwoChildren(NodeOf(self.root, id))

\* Treap: the found node object itself leaves the tree, unlinked when the
\* rotations have left it at most one child; every other object stays and
\* keeps its key.
Treap_DeleteUnlinksFound(self, k) ==
    LET z == BST_delete_found(self.root, k)
        after == Treap_delete_call(self, k).self
    IN TwoChildren(z) =>
        /\ NodeIds(after.root) = NodeIds(self.root) \ {z.id}
        /\ Treap_delete_unlinked(self.root, k).id = z.id
        /\ ~TwoChildren(Treap_delete_unlinked(self.root, k))
        /\ \A n \in Subtrees(after.root) : n.key = NodeOf(self.root, n.id).key

\* RBTree: the found node object z itself leaves the tree (its own links
\* to both children are never cleared) and the successor object y stands
\* in its place with its own key and the color of z.
RB_DeleteUnlinksFound(self, k) ==
    LET z == RB_delete_find(self, self.root, NIL, k)
        y == RB_minimum(self, self.right[z])
        after == RBTree_delete(self, k).self
    IN (z # NIL /\ self.left[z] # NIL /\ self.right[z] # NIL) =>
        /\ RB_subtree(after, after.root) = RB_subtree(self, self.root) \ {z}
        /\ after.left[z] # NIL /\ after.right[z] # NIL
        /\ \A n \in RB_subtree(after, after.root) : after.key[n] = self.key[n]
        /\ RB_delete_unlink(self, z).t.color[y] = self.color[z]

\* The claim as stated: the found two-child node object is still in the
\* tree after the call.
C22_TwoChildNodeStays ==
    \A k \in Keys :
        CASE engine = "avl" ->
               LET z == BST_delete_found(avl.root, k)
               IN TwoChildren(z) => z.id \in NodeIds(AVLTree_delete(avl, k).self.root)
          [] engine = "treap" ->
               LET z == BST_delete_found(treap.root, k)
               IN TwoChildren(z) => z.id \in NodeIds(Treap_delete_call(treap, k).self.root)
          [] engine = "rb" ->
               LET z == RB_delete_find(rb, rb.root, NIL, k)
                   after == RBTree_delete(rb, k).self
               IN (z # NIL /\ rb.left[z] # NIL /\ rb.right[z] # NIL) =>
                      z \in RB_subtree(after, after.root)
          [] OTHER -> TRUE

\* Amended: the successor's key is copied in an AVLTree only; RBTree and
\* Treap unlink the found node object itself and copy no key.
C22_TwoChildDeletePerEngine ==
    \A k \in Keys :
        CASE engine = "avl" -> AVL_DeleteCopiesSuccessor(avl, k)
          [] engine = "treap" -> Treap_DeleteUnlinksFound(treap, k)
          [] engine = "rb" -> RB_DeleteUnlinksFound(rb, k)
          [] OTHER -> TRUE

\* An AVLTree whose root has two children and whose successor is not the
\* right child itself.
C22_Witness ==
    /\ engine = "avl"
    /\ TwoChildren(avl.root)
    /\ avl.root.right.left # None
    /\ BST_delete_found(avl.root, avl.root.key) = avl.root

(***************************************************************************)
(* C23.  RBTree: after every insert or delete the parent back-references   *)
(* agree with the child links: the parent of self.root is None, every real *)
(* child c of a real node n has c.parent = n, and self.root is the only    *)
(* real node without a parent (self.root is NIL when the tree is empty).   *)
(***************************************************************************)
C23_ParentsMatchChildren ==
    engine = "rb" =>
        /\ rb.parent[rb.root] = NoRef
        /\ \A n \in RB_subtree(rb, rb.root) :
              /\ rb.left[n] # NIL => rb.parent[rb.left[n]] = n
              /\ rb.right[n] # NIL => rb.parent[rb.right[n]] = n
              /\ n # rb.root => rb.parent[n] # NoRef
        /\ (RB_subtree(rb, rb.root) = {}) = (rb.root = NIL)

\* A tree of three levels after a delete, the root with two real children
\* and a real grandchild.
C23_Witness ==
    /\ engine = "rb" /\ removed
    /\ rb.left[rb.root] # NIL /\ rb.right[rb.root] # NIL
    /\ \E n \in RB_subtree(rb, rb.root) :
          n # rb.root /\ rb.parent[n] # rb.root /\ rb.parent[rb.parent[n]] = rb.root

(***************************************************************************)
(* C24.  RBTree: in every reachable state the NIL sentinel is BLACK, and   *)
(* the left and right links of every real node point to a real node or to  *)
(* the NIL sentinel of the tree, never to None: the children of every leaf *)
(* are NIL.                                                                *)
(***************************************************************************)
\* The objects met from n by following left and right links up to the
\* sentinel or to None.
RECURSIVE RB_linked(_, _)
RB_linked(t, n) ==
    IF n = NIL \/ n = NoRef THEN {}
    ELSE {n} \cup RB_linked(t, t.left[n]) \cup RB_linked(t, t.right[n])

C24_SentinelBlackLinksSet ==
    engine = "rb" =>
        /\ rb.color[NIL] = BLACK
        /\ \A n \in RB_linked(rb, rb.root) :
              /\ rb.left[n] # NoRef /\ rb.right[n] # NoRef
              /\ rb.key[n] # NoRef
        /\ rb.root # NIL =>
              \E n \in RB_linked(rb, rb.root) : rb.left[n] = NIL /\ rb.right[n] = NIL

\* After a delete that ran _fix_delete with the sentinel as x (the
\* sentinel has a parent then), a tree with a leaf below the root.
C24_Witness ==
    /\ engine = "rb" /\ removed
    /\ rb.parent[NIL] # NoRef
    /\ \E n \in RB_subtree(rb, rb.root) :
          n # rb.root /\ rb.left[n] = NIL /\ rb.right[n] = NIL

(***************************************************************************)
(* C25.  RBTree: the NIL sentinel is immutable: no insert, delete,         *)
(* rotation, transplant or fixup writes any field (key, color, left,       *)
(* right, parent) of the NIL node, so each field keeps the value           *)
(* RBTree.__init__ gave it.                                                *)
(***************************************************************************)
\* The five attributes of the sentinel of tree t.
RB_sentinel(t) ==
    [key |-> t.key[NIL], color |-> t.color[NIL], left |-> t.left[NIL],
     right |-> t.right[NIL], parent |-> t.parent[NIL]]

C25_SentinelNeverChanges ==
    engine = "rb" => RB_sentinel(rb) = RB_sentinel(RBTree_init)

\* Amended: key, color, left and right of the sentinel keep their values
\* in every state, and no insert changes its parent; only delete does
\* (`v.parent = u.parent` of _rb_transplant and `x.parent = y`, both with
\* the sentinel as v or x).
C25_SentinelChangedByDeleteOnly ==
    engine = "rb" =>
        /\ [RB_sentinel(rb) EXCEPT !.parent = NoRef] = RB_sentinel(RBTree_init)
        /\ Cardinality(RB_live(rb) \ {NIL}) < MaxRBNodes =>
              \A k \in Keys : RB_sentinel(RBTree_insert(rb, k).self) = RB_sentinel(rb)
        /\ ~removed => rb.parent[NIL] = NoRef
        /\ \A k \in Keys :
              RB_delete_find(rb, rb.root, NIL, k) = NIL =>
                  RB_sentinel(RBTree_delete(rb, k).self) = RB_sentinel(rb)

\* The parent of the sentinel is a node object that a delete took out of
\* the tree, while the tree has rotated since (the root has two children).
C25_Witness ==
    /\ engine = "rb"
    /\ rb.parent[NIL] # NoRef
    /\ rb.parent[NIL] \notin RB_subtree(rb, rb.root)
    /\ rb.left[rb.root] # NIL /\ rb.right[rb.root] # NIL

(***************************************************************************)
(* C26.  Treap: the priority of a node is fixed when the node is created:  *)
(* no insert, delete or rotation writes the priority of an existing node,  *)
(* and every node object that survives an operation has the key and the    *)
(* priority it had before it.                                              *)
(***************************************************************************)
\* The key and priority of each node object of the tree.
Treap_pairs(self) ==
    {[id |-> n.id, key |-> n.key, priority |-> n.priority] : n \in Subtrees(self.root)}

\* Every node object of `after` that `before` has carries the same pair.
Treap_pairs_kept(before, after) ==
    \A a \in Treap_pairs(after) :
        a.id \in NodeIds(before.root) => a \in Treap_pairs(before)

C26_PriorityFixed ==
    engine = "treap" =>
        /\ \A k \in Keys :
              /\ Treap_pairs_kept(treap, Treap_delete_call(treap, k).self)
              /\ Treap_pairs_kept(treap, Treap_search_call(treap, k).self)
        /\ Size(treap.root) < MaxTreapNodes =>
              \A k \in Keys, p \in Prios :
                  LET after == Treap_insert_call(treap, k, p).self IN
                  /\ Treap_pairs_kept(treap, after)
                  /\ Treap_pairs(after) \ Treap_pairs(treap) =
                        {[id |-> FreshId(NodeIds(treap.root)), key |-> k, priority |-> p]}

\* A treap after a delete whose root has a right child below the highest
\* priority, with room for an insert: a key inserted under that child with
\* a higher priority rotates on its way up.
C26_Witness ==
    /\ engine = "treap" /\ removed
    /\ treap.root # None /\ treap.root.right # None
    /\ treap.root.right.priority < MaxPrio
    /\ Size(treap.root) < MaxTreapNodes

(***************************************************************************)
(* C27.  Treap: in every reachable state each child has a strictly lower   *)
(* priority than its parent, for any priorities drawn at node creation.    *)
(***************************************************************************)
C27_StrictHeapOrder ==
    engine = "treap" =>
        \A n \in Subtrees(treap.root) :
            /\ n.left # None => n.left.priority < n.priority
            /\ n.right # None => n.right.priority < n.priority

(***************************************************************************)
(* Duplicate-free use: the caller calls insert(k) only while k is not in   *)
(* the tree, and is otherwise the caller of Spec.                          *)
(***************************************************************************)
Absent(k) == count[k] = 0

NextDistinct ==
    \/ \E k \in Keys : Absent(k) /\ AVLInsert(k)
    \/ \E k \in Keys : AVLSearch(k)
    \/ \E k \in Keys : AVLDelete(k)
    \/ \E k \in Keys : Absent(k) /\ RBInsert(k)
    \/ \E k \in Keys : RBSearch(k)
    \/ \E k \in Keys : RBDelete(k)
    \/ \E k \in Keys, p \in Prios : Absent(k) /\ TreapInsert(k, p)
    \/ \E k \in Keys : TreapSearch(k)
    \/ \E k \in Keys : TreapDelete(k)

SpecDistinct == Init /\ [][NextDistinct]_vars

C30_DistinctKeysStrictOrder ==
    /\ \A k \in Keys : Entries(Tree, k) <= 1
    /\ \A n \in Sides(Tree) :
          /\ \A x \in n.left : x < n.key
          /\ \A x \in n.right : x > n.key
    /\ \A k \in Keys : ~Found(DeleteCall(Tree, k).self, k)

\* After a delete, a node with keys on both sides: every key is held and
\* found, so that each delete(k) has an entry to remove.
C30_Witness ==
    /\ removed
    /\ \E n \in Sides(Tree) : n.left # {} /\ n.right # {}
    /\ \A k \in Keys : Found(Tree, k) /\ Entries(Tree, k) = 1

(***************************************************************************)
(* A Treap whose keys are distinct and whose priorities are distinct: the  *)
(* caller inserts a key only while it is absent, and random.random() never *)
(* returns a value that a node of the tree already carries.                *)
(***************************************************************************)
MaxDraw == 4
Draws == 1..MaxDraw

InitDraws == Init /\ engine = "treap"

TreapInsertDrawn(k, p) ==
    /\ Absent(k)
    /\ \A n \in Subtrees(treap.root) : n.priority # p
    /\ TreapInsert(k, p)

NextDraws ==
    \/ \E k \in Keys, p \in Draws : TreapInsertDrawn(k, p)
    \/ \E k \in Keys : TreapSearch(k)
    \/ \E k \in Keys : TreapDelete(k)

SpecDraws == InitDraws /\ [][NextDraws]_vars

\* The (key, priority) pairs the tree holds.
SurvivingPairs(self) == {[key |-> n.key, priority |-> n.priority] : n \in Subtrees(self.root)}

\* The one treap over a set of pairs with distinct keys and distinct
\* priorities: the pair of highest priority at the root, the pairs of
\* smaller key built the same way to its left, the others to its right.
RECURSIVE TreapOf(_)
TreapOf(pairs) ==
    IF pairs = {} THEN None
    ELSE LET top == CHOOSE a \in pairs : \A b \in pairs : b.priority <= a.priority
         IN [TreapNode(top.key, top.priority, 0) EXCEPT
                !.left = TreapOf({b \in pairs : b.key < top.key}),
                !.right = TreapOf({b \in pairs : b.key > top.key})]

(***************************************************************************)
(* C31.  Treap shape is history-independent: with distinct keys and        *)
(* distinct priorities the tree after any sequence of inserts and deletes  *)
(* is the one treap determined by the set of surviving (key, priority)     *)
(* pairs, so that two sequences leaving the same pairs leave the same      *)
(* tree; and each further insert or delete again yields the treap of the   *)
(* pairs it leaves.                                                        *)
(***************************************************************************)
C31_ShapeFromPairs ==
    /\ treap.root = Renamed(TreapOf(SurvivingPairs(treap)), 0)
    /\ \A k \in Keys :
          LET after == Treap_objects(Treap_delete_call(treap, k).self)
          IN /\ SurvivingPairs(after) = {a \in SurvivingPairs(treap) : a.key # k}
             /\ after.root = Renamed(TreapOf(SurvivingPairs(after)), 0)

\* After a delete, three nodes whose root is neither the smallest nor the
\* largest key: a delete of it must choose which child to rotate up.
C31_Witness ==
    /\ removed
    /\ Size(treap.root) = 3
    /\ treap.root.left # None /\ treap.root.right # None

(***************************************************************************)
(* C32.  UltraFastCuckooFilter: check(x) returns True only if some earlier *)
(* insert stored a fingerprint equal to that of x in one of the two        *)
(* candidate buckets of x, so only if a login with the fingerprint of x    *)
(* was inserted; on a freshly constructed filter, where nothing was        *)
(* inserted, check(x) is False for every x, fingerprint 0 included.        *)
(***************************************************************************)
C32_TrueOnlyIfStored ==
    engine = "cuckoo" =>
        \A x \in Logins :
            Cuckoo_check(cuckoo, x) =>
                \E y \in inserted : Cuckoo_fingerprint(y) = Cuckoo_fingerprint(x)

(***************************************************************************)
(* The running call.  One call of insert, search or delete, followed pass  *)
(* by pass through its loops and frame by frame down its recursion: `run`  *)
(* holds the position and the locals.  A frame that returns runs code      *)
(* without loops (height updates and rotations), so the returns of an AVL  *)
(* or Treap recursion are taken together with the base case, as the        *)
(* one-step call computes them.  The caller starts a call only between     *)
(* calls, and never after an exception.                                    *)
(***************************************************************************)
InitRun == Init

Between == run.pc = "idle" /\ ~raised

\* The call returns (or raises): the ghosts as in Called.
Return(name, r) ==
    /\ run' = Idle
    /\ raised' = r
    /\ count' = IF name = "insert" THEN [count EXCEPT ![run.key] = @ + 1]
                ELSE IF name = "delete" /\ count[run.key] > 0
                     THEN [count EXCEPT ![run.key] = @ - 1]
                ELSE count
    /\ removed' = (removed \/ (name = "delete" /\ count[run.key] > 0))

Running == UNCHANGED <<raised, count, removed>>

\* RBTree.insert, lines 47-49.
RBInsertStart(key) ==
    /\ engine = "rb" /\ Between
    /\ Cardinality(RB_live(rb) \ {NIL}) < MaxRBNodes
    /\ LET new_node == FreshId(RB_live(rb) \ {NIL}) IN
       /\ rb' = RBNode(rb, new_node, key, RED, NIL, NIL, NoRef)
       /\ run' = [Idle EXCEPT !.pc = "insert_descend", !.key = key, !.node = rb.root,
                              !.new_node = new_node]
    /\ Running /\ UNCHANGED <<engine, avl, treap, filters>>

\* One test of the loop condition of line 52: a pass (lines 53-57), or
\* the exit through lines 59-78 up to the call of _fix_insert.
RBInsertDescend ==
    /\ run.pc = "insert_descend"
    /\ IF run.node # NIL
       THEN /\ run' = [run EXCEPT !.steps = @ + 1, !.z = run.node,
                                  !.node = IF run.key < rb.key[run.node]
                                           THEN rb.left[run.node] ELSE rb.right[run.node]]
            /\ rb' = rb /\ Running
       ELSE LET t == RB_insert_link(rb, run.key, run.new_node, run.z) IN
            IF t.parent[run.new_node] = NoRef
            THEN rb' = RB_objects([t EXCEPT !.color[run.new_node] = BLACK])
                 /\ Return("insert", FALSE)
            ELSE IF t.parent[t.parent[run.new_node]] = NoRef
            THEN rb' = RB_objects(t) /\ Return("insert", FALSE)
            ELSE /\ rb' = t /\ Running
                 /\ run' = [run EXCEPT !.steps = @ + 1, !.pc = "fix_insert", !.node = run.new_node]
    /\ UNCHANGED <<engine, avl, treap, filters>>

\* One test of the loop condition of _fix_insert (line 88): a pass with
\* its break (lines 89-122), or the exit through line 123.
RBFixInsertPass ==
    /\ run.pc = "fix_insert"
    /\ IF rb.color[rb.parent[run.node]] = RED
       THEN LET r == RB_fix_insert_body(rb, run.node) IN
            IF r.node = r.t.root
            THEN rb' = RB_objects([r.t EXCEPT !.color[r.t.root] = BLACK])
                 /\ Return("insert", FALSE)
            ELSE rb' = r.t /\ run' = [run EXCEPT !.steps = @ + 1, !.node = r.node] /\ Running
       ELSE rb' = RB_objects([rb EXCEPT !.color[rb.root] = BLACK])
            /\ Return("insert", FALSE)
    /\ UNCHANGED <<engine, avl, treap, filters>>

\* RBTree.search, line 167.
RBSearchStart(key) ==
    /\ engine = "rb" /\ Between
    /\ run' = [Idle EXCEPT !.pc = "search_helper", !.key = key, !.node = rb.root]
    /\ Running /\ UNCHANGED <<engine, avl, rb, treap, filters>>

\* One frame of _search_helper (lines 170-177).
RBSearchFrame ==
    /\ run.pc = "search_helper"
    /\ IF run.node = NIL \/ rb.key[run.node] = run.key
       THEN Return("search", FALSE)
       ELSE /\ run' = [run EXCEPT !.steps = @ + 1, !.node = IF run.key < rb.key[run.node]
                                           THEN rb.left[run.node] ELSE rb.right[run.node]]
            /\ Running
    /\ UNCHANGED <<engine, avl, rb, treap, filters>>

\* RBTree.delete, lines 189 and 195.
RBDeleteStart(key) ==
    /\ engine = "rb" /\ Between
    /\ run' = [Idle EXCEPT !.pc = "delete_helper", !.key = key, !.node = rb.root, !.z = NIL]
    /\ Running /\ UNCHANGED <<engine, avl, rb, treap, filters>>

\* Lines 209-236 once z is known and, for a z with two children, _minimum
\* has returned: the unlinking, then the call of _fix_delete or the
\* return.
RBUnlink ==
    LET u == RB_delete_unlink(rb, run.z) IN
    IF u.y_original_color = BLACK
    THEN rb' = u.t /\ run' = [run EXCEPT !.steps = @ + 1, !.pc = "fix_delete", !.node = u.x] /\ Running
    ELSE rb' = RB_objects(u.t) /\ Return("delete", FALSE)

\* One test of the loop condition of line 197: a pass (lines 198-203), or
\* the exit through lines 205-221.
RBDeleteFind ==
    /\ run.pc = "delete_helper"
    /\ IF run.node # NIL
       THEN /\ run' = [run EXCEPT !.steps = @ + 1, !.z = IF rb.key[run.node] = run.key THEN run.node ELSE @,
                                  !.node = IF run.key < rb.key[run.node]
                                           THEN rb.left[run.node] ELSE rb.right[run.node]]
            /\ rb' = rb /\ Running
       ELSE IF run.z = NIL THEN rb' = RB_objects(rb) /\ Return("delete", FALSE)
       ELSE IF rb.left[run.z] # NIL /\ rb.right[run.z] # NIL
       THEN /\ run' = [run EXCEPT !.steps = @ + 1, !.pc = "minimum", !.node = rb.right[run.z]]
            /\ rb' = rb /\ Running
       ELSE RBUnlink
    /\ UNCHANGED <<engine, avl, treap, filters>>

\* One test of the loop condition of _minimum (line 309): a pass, or the
\* return to line 222.
RBMinimumPass ==
    /\ run.pc = "minimum"
    /\ IF rb.left[run.node] # NIL
       THEN run' = [run EXCEPT !.steps = @ + 1, !.node = rb.left[run.node]] /\ rb' = rb /\ Running
       ELSE RBUnlink
    /\ UNCHANGED <<engine, avl, treap, filters>>

\* One test of the loop condition of _fix_delete (line 255): a pass, or
\* the exit through line 303.
RBFixDeletePass ==
    /\ run.pc = "fix_delete"
    /\ IF run.node # rb.root /\ rb.color[run.node] = BLACK
       THEN LET r == RB_fix_delete_body(rb, run.node) IN
            rb' = r.t /\ run' = [run EXCEPT !.steps = @ + 1, !.node = r.x] /\ Running
       ELSE rb' = RB_objects([rb EXCEPT !.color[run.node] = BLACK])
            /\ Return("delete", FALSE)
    /\ UNCHANGED <<engine, avl, treap, filters>>

\* AVLTree.insert, line 77: the first frame of _insert.
AVLInsertStart(key) ==
    /\ engine = "avl" /\ Between
    /\ Size(avl.root) < MaxAVLNodes
    /\ run' = [Idle EXCEPT !.pc = "avl_insert", !.key = key, !.k = key, !.frame = avl.root]
    /\ Running /\ UNCHANGED <<engine, avl, rb, treap, filters>>

\* One frame of _insert down to its recursive call (lines 81-86); the
\* frame of line 82 is the last, and the frames return.
AVLInsertFrame ==
    /\ run.pc = "avl_insert"
    /\ IF run.frame = None
       THEN LET r == AVLTree_insert(avl, run.key) IN
            avl' = AVL_Tree_objects(r.self) /\ Return("insert", r.raised)
       ELSE /\ run' = [run EXCEPT !.steps = @ + 1, !.frame = IF run.k < run.frame.key
                                            THEN run.frame.left ELSE run.frame.right]
            /\ avl' = avl /\ Running
    /\ UNCHANGED <<engine, rb, treap, filters>>

AVLSearchStart(key) ==
    /\ engine = "avl" /\ Between
    /\ run' = [Idle EXCEPT !.pc = "avl_search", !.key = key, !.k = key, !.frame = avl.root]
    /\ Running /\ UNCHANGED <<engine, avl, rb, treap, filters>>

\* One frame of _search (lines 123-130).
AVLSearchFrame ==
    /\ run.pc = "avl_search"
    /\ IF run.frame = None \/ run.frame.key = run.k
       THEN Return("search", FALSE)
       ELSE /\ run' = [run EXCEPT !.steps = @ + 1, !.frame = IF run.k < run.frame.key
                                            THEN run.frame.left ELSE run.frame.right]
            /\ Running
    /\ UNCHANGED <<engine, avl, rb, treap, filters>>

AVLDeleteStart(key) ==
    /\ engine = "avl" /\ Between
    /\ run' = [Idle EXCEPT !.pc = "avl_delete", !.key = key, !.k = key, !.frame = avl.root]
    /\ Running /\ UNCHANGED <<engine, avl, rb, treap, filters>>

\* One frame of _delete down to its recursive call or to the call of
\* _min_value_node (lines 143-159); the frame of line 144, 155 or 158 is
\* the last.
AVLDeleteFrame ==
    /\ run.pc = "avl_delete"
    /\ IF run.frame = None
          \/ (run.k = run.frame.key /\ (run.frame.left = None \/ run.frame.right = None))
       THEN LET r == AVLTree_delete(avl, run.key) IN
            avl' = AVL_Tree_objects(r.self) /\ Return("delete", r.raised)
       ELSE /\ run' = IF run.k < run.frame.key THEN [run EXCEPT !.steps = @ + 1, !.frame = run.frame.left]
                      ELSE IF run.k > run.frame.key THEN [run EXCEPT !.steps = @ + 1, !.frame = run.frame.right]
                      ELSE [run EXCEPT !.steps = @ + 1, !.pc = "min_value_node", !.current = run.frame.right]
            /\ avl' = avl /\ Running
    /\ UNCHANGED <<engine, rb, treap, filters>>

\* One test of the loop condition of _min_value_node (line 200): a pass,
\* or the return to lines 160-161, where the next frame of _delete gets
\* node.right and temp.key.
AVLMinValuePass ==
    /\ run.pc = "min_value_node"
    /\ run' = IF run.current.left # None THEN [run EXCEPT !.steps = @ + 1, !.current = run.current.left]
              ELSE [run EXCEPT !.steps = @ + 1, !.pc = "avl_delete", !.k = run.current.key,
                               !.frame = run.frame.right, !.current = None]
    /\ Running /\ UNCHANGED <<engine, avl, rb, treap, filters>>

TreapInsertStart(key, priority) ==
    /\ engine = "treap" /\ Between
    /\ Size(treap.root) < MaxTreapNodes
    /\ run' = [Idle EXCEPT !.pc = "treap_insert", !.key = key, !.k = key,
                           !.priority = priority, !.frame = treap.root]
    /\ Running /\ UNCHANGED <<engine, avl, rb, treap, filters>>

\* One frame of Treap._insert down to its recursive call (lines 81-90).
TreapInsertFrame ==
    /\ run.pc = "treap_insert"
    /\ IF run.frame = None
       THEN treap' = Treap_objects(Treap_insert_call(treap, run.key, run.priority).self)
            /\ Return("insert", FALSE)
       ELSE /\ run' = [run EXCEPT !.steps = @ + 1, !.frame = IF run.k < run.frame.key
                                            THEN run.frame.left ELSE run.frame.right]
            /\ treap' = treap /\ Running
    /\ UNCHANGED <<engine, avl, rb, filters>>

TreapSearchStart(key) ==
    /\ engine = "treap" /\ Between
    /\ run' = [Idle EXCEPT !.pc = "treap_search", !.key = key, !.k = key, !.frame = treap.root]
    /\ Running /\ UNCHANGED <<engine, avl, rb, treap, filters>>

\* One frame of Treap._search (lines 52-64).
TreapSearchFrame ==
    /\ run.pc = "treap_search"
    /\ IF run.frame = None \/ run.frame.key = run.k
       THEN Return("search", FALSE)
       ELSE /\ run' = [run EXCEPT !.steps = @ + 1, !.frame = IF run.k < run.frame.key
                                            THEN run.frame.left ELSE run.frame.right]
            /\ Running
    /\ UNCHANGED <<engine, avl, rb, treap, filters>>

TreapDeleteStart(key) ==
    /\ engine = "treap" /\ Between
    /\ run' = [Idle EXCEPT !.pc = "treap_delete", !.key = key, !.k = key, !.frame = treap.root]
    /\ Running /\ UNCHANGED <<engine, avl, rb, treap, filters>>

\* The `node` argument of the recursive call a frame of Treap._delete
\* makes (lines 114-132): a child, or after a rotation the side of the new
\* subtree root on which the node to delete now hangs.
Treap_delete_next_frame(node, key) ==
    IF key < node.key THEN node.left
    ELSE IF key > node.key THEN node.right
    ELSE IF node.left.priority > node.right.priority THEN Treap_right_rotate(node).right
    ELSE Treap_left_rotate(node).left

\* One frame of Treap._delete down to its recursive call; the frame of
\* line 111, 121 or 123 is the last.
TreapDeleteFrame ==
    /\ run.pc = "treap_delete"
    /\ IF run.frame = None
          \/ (run.k = run.frame.key /\ (run.frame.left = None \/ run.frame.right = None))
       THEN treap' = Treap_objects(Treap_delete_call(treap, run.key).self)
            /\ Return("delete", FALSE)
       ELSE /\ run' = [run EXCEPT !.steps = @ + 1, !.frame = Treap_delete_next_frame(run.frame, run.k)]
            /\ treap' = treap /\ Running
    /\ UNCHANGED <<engine, avl, rb, filters>>

\* The caller starts a call.
StartCall ==
    \/ \E key \in Keys : RBInsertStart(key)
    \/ \E key \in Keys : RBSearchStart(key)
    \/ \E key \in Keys : RBDeleteStart(key)
    \/ \E key \in Keys : AVLInsertStart(key)
    \/ \E key \in Keys : AVLSearchStart(key)
    \/ \E key \in Keys : AVLDeleteStart(key)
    \/ \E key \in Keys, priority \in Prios : TreapInsertStart(key, priority)
    \/ \E key \in Keys : TreapSearchStart(key)
    \/ \E key \in Keys : TreapDeleteStart(key)

\* The interpreter runs the call in progress.
StepCall ==
    \/ RBInsertDescend
    \/ RBFixInsertPass
    \/ RBSearchFrame
    \/ RBDeleteFind
    \/ RBMinimumPass
    \/ RBFixDeletePass
    \/ AVLInsertFrame
    \/ AVLSearchFrame
    \/ AVLDeleteFrame
    \/ AVLMinValuePass
    \/ TreapInsertFrame
    \/ TreapSearchFrame
    \/ TreapDeleteFrame

NextRun == StartCall \/ StepCall

SpecRun == InitRun /\ [][NextRun]_vars

\* The number of parent links from node n up to the root.
RECURSIVE RB_depth(_, _)
RB_depth(t, n) == IF t.parent[n] = NoRef THEN 0 ELSE 1 + RB_depth(t, t.parent[n])

\* What a call in progress still has before it, as a number: the loops it
\* has not entered yet count RBLoopWeight each, the loop it is in counts
\* the nodes below its cursor (a descent) or the height of its cursor above
\* the root (a fix-up; in _fix_delete a BLACK x counts one more than a RED
\* x at the same height, since the loop leaves at a RED x).
RBLoopWeight == 2 * Cardinality(RBObjs) + 2

RB_remaining ==
    CASE run.pc = "insert_descend" ->
           RBLoopWeight + Cardinality(RB_linked(rb, run.node))
      [] run.pc = "fix_insert" -> RB_depth(rb, run.node)
      [] run.pc = "search_helper" -> Cardinality(RB_linked(rb, run.node))
      [] run.pc = "delete_helper" ->
           2 * RBLoopWeight + Cardinality(RB_linked(rb, run.node))
      [] run.pc = "minimum" -> RBLoopWeight + Cardinality(RB_linked(rb, run.node))
      [] run.pc = "fix_delete" ->
           2 * RB_depth(rb, run.node) + (IF rb.color[run.node] = BLACK THEN 1 ELSE 0)
      [] OTHER -> 0

\* An AVL or Treap recursion has the nodes below the argument of its
\* current frame before it; while _min_value_node runs for a frame, the
\* nodes below its cursor and the right subtree of that frame.
BST_remaining ==
    LET weight == Size(run.frame) + 1 IN
    CASE run.pc = "min_value_node" ->
           weight * (Size(run.frame) - 1) + Size(run.current)
      [] run.pc \in {"avl_insert", "avl_search", "avl_delete", "treap_insert",
                     "treap_search", "treap_delete"} -> weight * Size(run.frame)
      [] OTHER -> 0

Remaining == RB_remaining + BST_remaining

(***************************************************************************)
(* C28.  Every insert, search and delete call on a finite tree terminates  *)
(* in each engine.  While a call is in progress (in the loops of           *)
(* _fix_insert and _fix_delete, the descents of insert, _delete_helper,    *)
(* _minimum and _min_value_node, or a frame of an AVL or Treap recursion,  *)
(* the rotate-down of Treap._delete among them) every loop test and every  *)
(* frame either returns or leaves strictly less before the call, measured  *)
(* by a natural number: the exit is reached after finitely many steps.     *)
(***************************************************************************)
C28_EveryStepNearsReturn ==
    /\ [](Remaining >= 0)
    /\ [][(run.pc # "idle" /\ run'.pc # "idle") => Remaining' < Remaining]_vars

\* _fix_delete is at its loop test after a pass that moved x up from the
\* sentinel to a real node below the root.
C28_Witness ==
    /\ run.pc = "fix_delete"
    /\ run.steps >= 2
    /\ run.node # NIL /\ run.node # rb.root
    /\ rb.parent[NIL] # NoRef

====
